---- MODULE Spec2Model ----
(***************************************************************************)
(* A model of the preprocessing core of CODEM                              *)
(* (src/codem/preprocessing/preprocess.py).  Two GeoData objects exist,    *)
(* the foundation ("fnd") and the area of interest ("aoi"); every          *)
(* attribute of GeoData is a variable indexed by the dataset.              *)
(*                                                                         *)
(* Numbers: raster values are records, Num(v) for a number and NaN for an  *)
(* IEEE not-a-number; None is Python's None.  Eq and Ne are the IEEE       *)
(* comparisons numpy makes (NaN differs from everything, itself included). *)
(* A raster is a sequence of rows, np.empty((0, 0)) is << >>.              *)
(***************************************************************************)
EXTENDS Integers, Sequences, FiniteSets, TLC

VARIABLES
    type,              \* GeoData._type
    file,              \* extension of GeoData.file ("" before instantiate)
    nodata,            \* GeoData.nodata
    dsm,               \* GeoData.dsm
    transform,         \* GeoData.transform
    crs,               \* GeoData.crs
    area_or_point,     \* GeoData.area_or_point
    window,            \* GeoData.window
    resolution,        \* GeoData._resolution
    native_resolution, \* GeoData.native_resolution
    units_factor,      \* GeoData.units_factor
    infilled,          \* GeoData.infilled (Unset until _infill assigns it)
    nodata_mask,       \* GeoData.nodata_mask (Unset until _infill assigns it)
    normed,            \* GeoData.normed
    point_cloud,       \* GeoData.point_cloud
    normal_vectors,    \* GeoData.normal_vectors
    processed,         \* GeoData.processed
    pc,                \* position of the call running on each dataset
    err,               \* the exception that ended the call, None if none
    trace,             \* the steps of prep() completed so far, in order
    l_infilled,        \* _infill's local infilled
    l_mask,            \* _infill's local mask
    infill_mask,       \* _infill's local infill_mask
    fs,                \* the temporary rasters that exist, by file name
    tmp_file,          \* _create_dsm's local tmp_file
    source,            \* what the dataset's source file holds
    calls,             \* how many times _create_dsm was called on the dataset
    config,            \* the configuration record (TIGHT_SEARCH, file types)
    last,              \* the last call made and its argument
    reg                \* the ApplyRegistration object, None before it is built

dataVars == <<type, file, nodata, dsm, transform, crs, area_or_point, window,
              resolution, native_resolution, units_factor>>
prepVars == <<infilled, nodata_mask, normed, point_cloud, normal_vectors,
              processed, trace, l_infilled, l_mask, infill_mask>>
fileVars == <<fs, tmp_file, source, calls>>
vars == <<dataVars, prepVars, fileVars, pc, err, config, last, reg>>

DS == {"fnd", "aoi"}
IsFnd(d) == d = "fnd"

\* ------------------------------------------------------------ bounds
MaxCells == 4
MaxElev == 1
MaxHoles == 1
MaxCalls == 2
MaxRes == 2
MaxClips == 2
MantissaBits == 5

\* ------------------------------------------------------------ values
None == [k |-> "none"]
\* an attribute that is not assigned yet; a sequence no array equals (arrays
\* have no row of length 0), so that it compares with arrays
Unset == <<<< >>>>
NaN == [k |-> "nan"]
Num(v) == [k |-> "num", v |-> v]

IsNaN(x) == x.k = "nan"
\* numpy's == and != on floats
Eq(x, y) == ~IsNaN(x) /\ ~IsNaN(y) /\ x = y
Ne(x, y) == ~Eq(x, y)

Elevations == {Num(v) : v \in 0..MaxElev}
CellValues == Elevations \cup {NaN}
NodataValues == {None, NaN} \cup Elevations

\* ------------------------------------------------------------ arrays
Rows(m) == Len(m)
Cols(m) == IF Len(m) = 0 THEN 0 ELSE Len(m[1])
Shape(m) == <<Rows(m), Cols(m)>>
Size(m) == Rows(m) * Cols(m)
Cells(m) == (1..Rows(m)) \X (1..Cols(m))
EmptyArray == << >>
Full(shape, v) == [r \in 1..shape[1] |-> [c \in 1..shape[2] |-> v]]
Matrices(R, C, V) == [1..R -> [1..C -> V]]

\* np.array_equal: same shape and every pair of elements compares equal
array_equal(a, b) ==
    /\ Shape(a) = Shape(b)
    /\ \A rc \in Cells(a) : Eq(a[rc[1]][rc[2]], b[rc[1]][rc[2]])

\* np.sum of a 0/1 mask
MaskSum(m) == Cardinality({rc \in Cells(m) : m[rc[1]][rc[2]] = 1})

\* np.reshape(a, -1): the cells in row-major (C) order
Flatten(m) ==
    [i \in 1..Size(m) |-> m[((i - 1) \div Cols(m)) + 1][((i - 1) % Cols(m)) + 1]]

RECURSIVE SelectSeq2(_, _)
\* xyz[mask]: the elements of a flat array where the flat boolean mask is set
SelectSeq2(xs, mask) ==
    IF Len(xs) = 0 THEN << >>
    ELSE IF Head(mask) = 1
         THEN <<Head(xs)>> \o SelectSeq2(Tail(xs), Tail(mask))
         ELSE SelectSeq2(Tail(xs), Tail(mask))

\* ------------------------------------------------------------ affine
\* rasterio.Affine(a, b, c, d, e, f): x = a*col + b*row + c, y = d*col + e*row + f
Affine(a, b, c, d, e, f) == [a |-> a, b |-> b, c |-> c, d |-> d, e |-> e, f |-> f]
\* a north-up transform of pixel size res with its origin (left, top) at (x0, y0)
NorthUp(res, x0, y0) == Affine(res, 0, x0, 0, 0 - res, y0)

\* T * (u, v) with u and v given in half pixels; the result is in half units,
\* so that the 0.5 pixel offset of _dsm2pc stays an integer
AffineMulHalf(T, u2, v2) ==
    <<T.a * u2 + T.b * v2 + 2 * T.c, T.d * u2 + T.e * v2 + 2 * T.f>>

\* ------------------------------------------------------------ _get_nodata_mask
\* the array argument after the call: dsm[nan_mask] = self.nodata
nan_to_nodata(a, nd) ==
    IF nd # None
    THEN [r \in 1..Rows(a) |-> [c \in 1..Cols(a) |->
             IF IsNaN(a[r][c]) THEN nd ELSE a[r][c]]]
    ELSE a

\* the returned mask: 1 = valid, 0 = invalid
get_nodata_mask(a, nd) ==
    LET b == nan_to_nodata(a, nd)
    IN  [r \in 1..Rows(a) |-> [c \in 1..Cols(a) |->
            IF nd # None
            THEN (IF Ne(b[r][c], nd) THEN 1 ELSE 0)
            ELSE (IF IsNaN(a[r][c]) THEN 0 ELSE 1)]]

\* ------------------------------------------------------------ fillnodata
\* rasterio.fill.fillnodata(image, mask): every cell whose mask is 0 gets an
\* inverse-distance-weighted mean of the cells whose mask is not 0 (all of
\* them lie within the search distance of 100 pixels here); a weighted mean
\* lies between the least and the greatest of these values.  Cells whose
\* mask is not 0 are returned as they are, and with no such cell nothing is
\* filled.
FillRange(img, mask) ==
    LET vals == {img[rc[1]][rc[2]].v : rc \in {x \in Cells(img) : mask[x[1]][x[2]] = 1}}
    IN  {Num(v) : v \in {w \in 0..MaxElev :
                            /\ \E lo \in vals : lo <= w
                            /\ \E hi \in vals : w <= hi}}

fillnodata(img, mask) ==
    LET holes == {rc \in Cells(img) : mask[rc[1]][rc[2]] = 0}
    IN  IF MaskSum(mask) = 0 THEN {img}
        ELSE {[r \in 1..Rows(img) |-> [c \in 1..Cols(img) |->
                  IF <<r, c>> \in holes THEN ch[<<r, c>>] ELSE img[r][c]]] :
              ch \in [holes -> FillRange(img, mask)]}

\* np.empty_like(dsm_array): uninitialised memory of the array's shape.  Only
\* whether it compares equal to dsm_array matters: it may hold the very same
\* numbers, or differ in every cell.
empty_like(a) == {a, Full(Shape(a), NaN)}

\* ------------------------------------------------------------ errors
Raised(t, m) == [k |-> "raised", type |-> t, msg |-> m]
EmptyInput == Raised("ValueError", "DSM array is empty.")
NoTransform == Raised("RuntimeError", "self.transform is not initialized")
TooFewPoints == Raised("RuntimeError", "Point cloud must have at least k points")

\* ------------------------------------------------------------ prep
\* k of _generate_vectors
K == 9

prep_order_normals_always(isFnd) ==
    <<"infill", "normalize", "dsm2pc", "generate_vectors", "return">>

\* the calls of prep() in program order; "return" stands for processed = True
prep_order(isFnd) ==
    IF isFnd
    THEN <<"infill", "normalize", "dsm2pc", "generate_vectors", "return">>
    ELSE <<"infill", "normalize", "dsm2pc", "return">>

\* the step prep() makes after step s
After(s, isFnd) ==
    LET o == prep_order(isFnd)
        i == CHOOSE j \in 1..Len(o) : o[j] = s
    IN  o[i + 1]

\* prep() is called on dataset d
PrepCall(d) ==
    /\ pc[d] = "idle"
    /\ pc' = [pc EXCEPT ![d] = prep_order(IsFnd(d))[1]]
    /\ trace' = [trace EXCEPT ![d] = << >>]
    /\ last' = [op |-> "prep", d |-> d]
    /\ UNCHANGED <<dataVars, fileVars, err, config, reg, infilled, nodata_mask, normed,
                   point_cloud, normal_vectors, processed, l_infilled, l_mask,
                   infill_mask>>

\* _infill up to the loop: the empty test, the copy and the first mask
InfillEnter(d) ==
    /\ pc[d] = "infill"
    /\ \E empty_array \in (IF nodata[d] # None
                           THEN {Full(Shape(dsm[d]), nodata[d])}
                           ELSE empty_like(dsm[d])) :
          IF array_equal(dsm[d], empty_array)
          THEN /\ pc' = [pc EXCEPT ![d] = "raised"]
               /\ err' = [err EXCEPT ![d] = EmptyInput]
               /\ UNCHANGED <<l_infilled, l_mask, infill_mask>>
          ELSE /\ pc' = [pc EXCEPT ![d] = "infill_loop"]
               /\ l_infilled' = [l_infilled EXCEPT ![d] = nan_to_nodata(dsm[d], nodata[d])]
               /\ l_mask' = [l_mask EXCEPT ![d] = get_nodata_mask(dsm[d], nodata[d])]
               /\ infill_mask' = [infill_mask EXCEPT ![d] = get_nodata_mask(dsm[d], nodata[d])]
               /\ UNCHANGED err
    /\ UNCHANGED <<dataVars, fileVars, config, reg, last, infilled, nodata_mask, normed,
                   point_cloud, normal_vectors, processed, trace>>

\* one pass of the while loop of _infill
InfillPass(d) ==
    /\ pc[d] = "infill_loop"
    /\ MaskSum(infill_mask[d]) < Size(infill_mask[d])
    /\ \E filled \in fillnodata(l_infilled[d], infill_mask[d]) :
          /\ l_infilled' = [l_infilled EXCEPT ![d] = nan_to_nodata(filled, nodata[d])]
          /\ infill_mask' = [infill_mask EXCEPT ![d] = get_nodata_mask(filled, nodata[d])]
    /\ UNCHANGED <<dataVars, fileVars, config, reg, last, pc, err, infilled, nodata_mask,
                   normed, point_cloud, normal_vectors, processed, trace, l_mask>>

\* the loop of _infill ends: self.infilled and self.nodata_mask are assigned
InfillReturn(d) ==
    /\ pc[d] = "infill_loop"
    /\ ~(MaskSum(infill_mask[d]) < Size(infill_mask[d]))
    /\ infilled' = [infilled EXCEPT ![d] = l_infilled[d]]
    /\ nodata_mask' = [nodata_mask EXCEPT ![d] = l_mask[d]]
    /\ trace' = [trace EXCEPT ![d] = Append(@, "infill")]
    /\ pc' = [pc EXCEPT ![d] = After("infill", IsFnd(d))]
    /\ UNCHANGED <<dataVars, fileVars, config, reg, last, err, normed, point_cloud,
                   normal_vectors, processed, l_infilled, l_mask, infill_mask>>

quantized_transposed(img) == [c \in 1..Cols(img) |-> [r \in 1..Rows(img) |-> "uint8"]]

\* cv2.GaussianBlur twice, the percentile clip and the cast to uint8 keep the
\* shape of self.infilled; the pixel values are not modelled
quantized(img) == [r \in 1..Rows(img) |-> [c \in 1..Cols(img) |-> "uint8"]]

Normalize(d) ==
    /\ pc[d] = "normalize"
    /\ IF transform[d] = None
       THEN /\ pc' = [pc EXCEPT ![d] = "raised"]
            /\ err' = [err EXCEPT ![d] = NoTransform]
            /\ UNCHANGED <<normed, trace>>
       ELSE /\ normed' = [normed EXCEPT ![d] = quantized(infilled[d])]
            /\ trace' = [trace EXCEPT ![d] = Append(@, "normalize")]
            /\ pc' = [pc EXCEPT ![d] = After("normalize", IsFnd(d))]
            /\ UNCHANGED err
    /\ UNCHANGED <<dataVars, fileVars, config, reg, last, infilled, nodata_mask,
                   point_cloud, normal_vectors, processed, l_infilled, l_mask,
                   infill_mask>>

pixel_offset_none(aop) == 0

\* u += 0.5, v += 0.5 for "Area", in half pixels
pixel_offset(aop) == IF aop = "Area" THEN 1 ELSE 0

\* the (row, col) of the i-th element of np.reshape(np.meshgrid(cols, rows), -1)
meshgrid_index(i, R, C) == <<((i - 1) \div C) + 1, ((i - 1) % C) + 1>>

\* xyz of _dsm2pc before the mask is applied: (x, y) in half units, z the value
dsm2pc_xyz(a, T, aop) ==
    [i \in 1..Size(a) |->
        LET rc == meshgrid_index(i, Rows(a), Cols(a))
            xy == AffineMulHalf(T, 2 * (rc[2] - 1) + pixel_offset(aop),
                                   2 * (rc[1] - 1) + pixel_offset(aop))
        IN  <<xy[1], xy[2], Flatten(a)[i]>>]

Dsm2pc(d) ==
    /\ pc[d] = "dsm2pc"
    /\ IF transform[d] = None
       THEN /\ pc' = [pc EXCEPT ![d] = "raised"]
            /\ err' = [err EXCEPT ![d] = NoTransform]
            /\ UNCHANGED <<point_cloud, trace>>
       ELSE /\ point_cloud' = [point_cloud EXCEPT ![d] =
                   SelectSeq2(dsm2pc_xyz(dsm[d], transform[d], area_or_point[d]),
                              Flatten(nodata_mask[d]))]
            /\ trace' = [trace EXCEPT ![d] = Append(@, "dsm2pc")]
            /\ pc' = [pc EXCEPT ![d] = After("dsm2pc", IsFnd(d))]
            /\ UNCHANGED err
    /\ UNCHANGED <<dataVars, fileVars, config, reg, last, infilled, nodata_mask, normed,
                   normal_vectors, processed, l_infilled, l_mask, infill_mask>>

\* pdal's filters.normal gives one normal per point; its value is not modelled
filters_normal(points) == [i \in 1..Len(points) |-> "normal"]

GenerateVectorsUnchecked(d) ==
    /\ pc[d] = "generate_vectors"
    /\ normal_vectors' = [normal_vectors EXCEPT ![d] = filters_normal(point_cloud[d])]
    /\ trace' = [trace EXCEPT ![d] = Append(@, "generate_vectors")]
    /\ pc' = [pc EXCEPT ![d] = After("generate_vectors", IsFnd(d))]
    /\ UNCHANGED <<dataVars, fileVars, config, reg, last, infilled, nodata_mask, normed,
                   point_cloud, processed, l_infilled, l_mask, infill_mask, err>>

\* _generate_vectors: the test n_points < k, then the normals
GenerateVectors(d) ==
    /\ pc[d] = "generate_vectors"
    /\ IF Len(point_cloud[d]) < K
       THEN /\ pc' = [pc EXCEPT ![d] = "raised"]
            /\ err' = [err EXCEPT ![d] = TooFewPoints]
            /\ UNCHANGED <<normal_vectors, trace>>
       ELSE /\ normal_vectors' = [normal_vectors EXCEPT ![d] = filters_normal(point_cloud[d])]
            /\ trace' = [trace EXCEPT ![d] = Append(@, "generate_vectors")]
            /\ pc' = [pc EXCEPT ![d] = After("generate_vectors", IsFnd(d))]
            /\ UNCHANGED err
    /\ UNCHANGED <<dataVars, fileVars, config, reg, last, infilled, nodata_mask, normed,
                   point_cloud, processed, l_infilled, l_mask, infill_mask>>

\* self.processed = True
PrepReturn(d) ==
    /\ pc[d] = "return"
    /\ processed' = [processed EXCEPT ![d] = TRUE]
    /\ pc' = [pc EXCEPT ![d] = "done"]
    /\ UNCHANGED <<dataVars, fileVars, config, reg, last, err, infilled, nodata_mask,
                   normed, point_cloud, normal_vectors, trace, l_infilled, l_mask,
                   infill_mask>>

\* ------------------------------------------------------------ files
\* the names a temporary raster can have: the fixed name Mesh._create_dsm
\* uses and the names tempfile.mkstemp can hand out (one for every call that
\* can be made, so that mkstemp always finds an unused name)
MeshTmp == <<"temp_dsm.tif", 0>>
MkstempNames == {<<"tmp.tif", i>> : i \in 1..(Cardinality(DS) * MaxCalls)}
FileNames == {MeshTmp} \cup MkstempNames
Absent == [k |-> "absent"]
NoFiles == [n \in FileNames |-> Absent]

\* a file path: os.path.splitext gives (root, ext)
Path(root, ext) == [root |-> root, ext |-> ext]
splitext(path) == <<path.root, path.ext>>

\* the recognized extensions (codem.lib.resources)
DefaultFiletypes ==
    [dsm_filetypes |-> {".tif", ".tiff"},
     mesh_filetypes |-> {".obj", ".ply", ".stl", ".gltf", ".glb"},
     pcloud_filetypes |-> {".las", ".laz", ".bpf", ".ply"}]

\* the configuration record: the two files, TIGHT_SEARCH, and the extension
\* sets the core consults
Config(fnd_file, aoi_file, tight, filetypes) ==
    [FND_FILE |-> fnd_file, AOI_FILE |-> aoi_file, TIGHT_SEARCH |-> tight,
     dsm_filetypes |-> filetypes.dsm_filetypes,
     mesh_filetypes |-> filetypes.mesh_filetypes,
     pcloud_filetypes |-> filetypes.pcloud_filetypes]

\* self.file = config["FND_FILE"] if fnd else config["AOI_FILE"]
FileOf(cfg, d) == IF IsFnd(d) THEN cfg.FND_FILE ELSE cfg.AOI_FILE

\* ------------------------------------------------------------ prep: inputs
\* every raster of at most MaxCells cells
SmallShapes == {s \in (1..MaxCells) \X (1..MaxCells) : s[1] * s[2] <= MaxCells}
SmallRasters == UNION {Matrices(s[1], s[2], CellValues) : s \in SmallShapes}

\* rasters of K or K + 1 cells (enough points for the normals), flat but for
\* at most MaxHoles cells that hold NaN or the elevation 0
BigShapes == {s \in (2..K) \X (2..K) : s[1] * s[2] \in {K, K + 1}}
BigRastersOf(s) ==
    {[r \in 1..s[1] |-> [c \in 1..s[2] |->
         IF <<r, c>> \in H THEN h ELSE Num(MaxElev)]] :
     H \in {X \in SUBSET ((1..s[1]) \X (1..s[2])) : Cardinality(X) <= MaxHoles},
     h \in {NaN, Num(0)}}
BigRasters == UNION {BigRastersOf(s) : s \in BigShapes}

PrepTransforms == {NorthUp(1, 0, 0), NorthUp(2, 10, 20)}

HasNaN(a) == \E rc \in Cells(a) : IsNaN(a[rc[1]][rc[2]])

\* The state before prep(): one dataset holds the DSM that _create_dsm left
\* (NaN cells occur only without a numeric nodata value: DSM._create_dsm
\* rewrites them to it, and the gridding writes none); the other dataset is
\* constructed and has no DSM yet.
InitPrep ==
    \E act \in DS, raster \in SmallRasters \cup BigRasters, nd \in NodataValues,
       aop \in {"Area", "Point"}, T \in PrepTransforms :
        /\ nd.k = "num" => ~HasNaN(raster)
        /\ type = [d \in DS |-> "dsm"]
        /\ config = Config(Path("fnd", ".tif"), Path("aoi", ".tif"), FALSE, DefaultFiletypes)
        /\ file = [d \in DS |-> FileOf(config, d)]
        /\ nodata = [d \in DS |-> IF d = act THEN nd ELSE None]
        /\ dsm = [d \in DS |-> IF d = act THEN raster ELSE EmptyArray]
        /\ transform = [d \in DS |-> IF d = act THEN T ELSE None]
        /\ crs = [d \in DS |-> None]
        /\ area_or_point = [d \in DS |-> IF d = act THEN aop ELSE "Undefined"]
        /\ window = [d \in DS |-> None]
        /\ resolution = [d \in DS |-> IF d = act THEN T.a ELSE 0]
        /\ native_resolution = [d \in DS |-> 1]
        /\ units_factor = [d \in DS |-> 1]
        /\ infilled = [d \in DS |-> Unset]
        /\ nodata_mask = [d \in DS |-> Unset]
        /\ normed = [d \in DS |-> EmptyArray]
        /\ point_cloud = [d \in DS |-> EmptyArray]
        /\ normal_vectors = [d \in DS |-> EmptyArray]
        /\ processed = [d \in DS |-> FALSE]
        /\ pc = [d \in DS |-> "idle"]
        /\ err = [d \in DS |-> None]
        /\ trace = [d \in DS |-> << >>]
        /\ l_infilled = [d \in DS |-> Unset]
        /\ l_mask = [d \in DS |-> Unset]
        /\ infill_mask = [d \in DS |-> Unset]
        /\ fs = NoFiles
        /\ tmp_file = [d \in DS |-> None]
        /\ source = [d \in DS |-> None]
        /\ calls = [d \in DS |-> 0]
        /\ reg = None
        /\ last = [op |-> "none"]

NextPrep ==
    \E d \in DS :
        \/ PrepCall(d)
        \/ InfillEnter(d)
        \/ InfillPass(d)
        \/ InfillReturn(d)
        \/ Normalize(d)
        \/ Dsm2pc(d)
        \/ GenerateVectors(d)
        \/ PrepReturn(d)

SpecPrep == InitPrep /\ [][NextPrep]_vars

\* ------------------------------------------------------------ prep: claims
\* step s of prep() has completed on dataset d
Done(d, s) == \E i \in 1..Len(trace[d]) : trace[d][i] = s
IsPrefix(p, q) == Len(p) <= Len(q) /\ \A i \in 1..Len(p) : p[i] = q[i]

\* C1: within one prep() call the steps complete in the order infill,
\* normalize, raster-to-point-cloud, normals; the normals step runs only on
\* the foundation (normal_vectors of the AOI stays empty); processed is true
\* only once the last of these steps has completed.
C1_PrepOrder ==
    \A d \in DS :
        LET steps == IF d = "fnd"
                     THEN <<"infill", "normalize", "dsm2pc", "generate_vectors">>
                     ELSE <<"infill", "normalize", "dsm2pc">>
        IN  /\ IsPrefix(trace[d], steps)
            /\ d = "aoi" => normal_vectors[d] = EmptyArray
            /\ processed[d] => trace[d] = steps

C1_Witness ==
    /\ processed["fnd"]
    /\ Len(trace["fnd"]) = 4
    /\ Len(normal_vectors["fnd"]) >= K

\* the cells where nodata_mask is true, and the row-major order of cells
TrueCells(d) == {rc \in Cells(nodata_mask[d]) : nodata_mask[d][rc[1]][rc[2]] = 1}
RowMajorBefore(p, q) == p[1] < q[1] \/ (p[1] = q[1] /\ p[2] < q[2])

\* C2: after _dsm2pc, point_cloud holds exactly one point per cell where
\* nodata_mask is true, in row-major order, and the point of the cell in row
\* r and column c (counted from 0) is (transform * (c + o, r + o), dsm[r, c])
\* with o = 0.5 for "Area" and o = 0 for "Point".  Coordinates are compared
\* in half units.
C2_PointCloud ==
    \A d \in DS :
        Done(d, "dsm2pc") =>
            /\ Len(point_cloud[d]) = Cardinality(TrueCells(d))
            /\ \A rc \in TrueCells(d) :
                  LET i == 1 + Cardinality({q \in TrueCells(d) : RowMajorBefore(q, rc)})
                      o == IF area_or_point[d] = "Area" THEN 1 ELSE 0
                      u == 2 * (rc[2] - 1) + o
                      v == 2 * (rc[1] - 1) + o
                      T == transform[d]
                  IN  point_cloud[d][i] =
                          <<T.a * u + T.b * v + 2 * T.c,
                            T.d * u + T.e * v + 2 * T.f,
                            dsm[d][rc[1]][rc[2]]>>

C2_Witness ==
    \E d \in DS :
        /\ Done(d, "dsm2pc")
        /\ area_or_point[d] = "Area"
        /\ Rows(dsm[d]) # Cols(dsm[d])
        /\ Len(point_cloud[d]) >= 2
        /\ Len(point_cloud[d]) < Size(dsm[d])

\* a valid cell: neither NaN nor the nodata value
ValidCell(x, nd) == ~IsNaN(x) /\ x # nd
HasValidCell(a, nd) == \E rc \in Cells(a) : ValidCell(a[rc[1]][rc[2]], nd)

\* C3: after _infill returns, nodata_mask is the validity mask of dsm as it
\* was on entry (prep() never assigns dsm), every cell of infilled is valid,
\* and infilled equals dsm wherever nodata_mask is true.
C3_Infill ==
    \A d \in DS :
        Done(d, "infill") =>
            /\ Shape(nodata_mask[d]) = Shape(dsm[d])
            /\ Shape(infilled[d]) = Shape(dsm[d])
            /\ \A rc \in Cells(dsm[d]) :
                  /\ nodata_mask[d][rc[1]][rc[2]] = 1
                        <=> ValidCell(dsm[d][rc[1]][rc[2]], nodata[d])
                  /\ ValidCell(infilled[d][rc[1]][rc[2]], nodata[d])
                  /\ nodata_mask[d][rc[1]][rc[2]] = 1
                        => infilled[d][rc[1]][rc[2]] = dsm[d][rc[1]][rc[2]]

\* C3 restricted to a nodata value that is not NaN
C3_InfillNumericNodata ==
    \A d \in DS :
        (Done(d, "infill") /\ nodata[d] # NaN) =>
            /\ Shape(nodata_mask[d]) = Shape(dsm[d])
            /\ Shape(infilled[d]) = Shape(dsm[d])
            /\ \A rc \in Cells(dsm[d]) :
                  /\ nodata_mask[d][rc[1]][rc[2]] = 1
                        <=> ValidCell(dsm[d][rc[1]][rc[2]], nodata[d])
                  /\ ValidCell(infilled[d][rc[1]][rc[2]], nodata[d])
                  /\ nodata_mask[d][rc[1]][rc[2]] = 1
                        => infilled[d][rc[1]][rc[2]] = dsm[d][rc[1]][rc[2]]

\* C4: _infill called on a DSM with no valid cell raises the empty-input
\* error before the fill loop and assigns neither infilled nor nodata_mask.
C4_EmptyRaises ==
    \A d \in DS :
        (pc[d] \notin {"idle", "infill"} /\ ~HasValidCell(dsm[d], nodata[d])) =>
            /\ pc[d] = "raised"
            /\ err[d] = EmptyInput
            /\ infilled[d] = Unset
            /\ nodata_mask[d] = Unset

\* C7: after prep() has completed, dsm, infilled, nodata_mask and normed
\* have the same (rows, cols) shape.
C7_SameShape ==
    \A d \in DS :
        processed[d] =>
            /\ Shape(infilled[d]) = Shape(dsm[d])
            /\ Shape(nodata_mask[d]) = Shape(dsm[d])
            /\ Shape(normed[d]) = Shape(dsm[d])

C7_Witness ==
    \E d \in DS :
        /\ processed[d]
        /\ Rows(dsm[d]) # Cols(dsm[d])
        /\ Size(normed[d]) > 1

\* ------------------------------------------------------------ gridding
PipelineError == Raised("RuntimeError", "pdal pipeline failed")
ReadError == Raised("RasterioIOError", "raster cannot be read")
FileNotFound == Raised("FileNotFoundError", "temp_dsm.tif")

MaxOf(S) == CHOOSE m \in S : \A x \in S : x <= m
MinOf(S) == CHOOSE m \in S : \A x \in S : m <= x

\* nodata of the writers.gdal stage
GdalNodata == Num(0 - 9999)

\* The raster that filters.transformation (the units matrix) and writers.gdal
\* (output_type max) make of a set of points (x, y, z) at a resolution: the
\* grid spans the bounds of the scaled points, a cell holds the greatest z of
\* the points that fall into it and the nodata value when none does.  (The
\* writer's search radius is not modelled.)
writers_gdal(points, uf, res, by) ==
    LET P == {<<p[1] * uf, p[2] * uf, p[3] * uf>> : p \in points}
        minx == MinOf({p[1] : p \in P})
        miny == MinOf({p[2] : p \in P})
        width == ((MaxOf({p[1] : p \in P}) - minx) \div res) + 1
        height == ((MaxOf({p[2] : p \in P}) - miny) \div res) + 1
        In(r, c) == {p \in P : /\ (p[1] - minx) \div res = c - 1
                               /\ height - 1 - ((p[2] - miny) \div res) = r - 1}
    IN  [k |-> "raster",
         by |-> by,
         dsm |-> [r \in 1..height |-> [c \in 1..width |->
                     IF In(r, c) = {} THEN GdalNodata
                     ELSE Num(MaxOf({p[3] : p \in In(r, c)}))]],
         transform |-> NorthUp(res, minx, miny + height * res),
         nodata |-> GdalNodata,
         crs |-> None,
         tags |-> "Area"]

\* data.read(1, window=w): the whole band, or the rows and columns of the
\* window that lie in the band
read_band(m, w) ==
    IF w = None THEN m
    ELSE LET r0 == IF w.row_off > 0 THEN w.row_off ELSE 0
             c0 == IF w.col_off > 0 THEN w.col_off ELSE 0
             r1 == IF w.row_off + w.height < Rows(m) THEN w.row_off + w.height ELSE Rows(m)
             c1 == IF w.col_off + w.width < Cols(m) THEN w.col_off + w.width ELSE Cols(m)
         IN  IF r1 <= r0 \/ c1 <= c0 THEN EmptyArray
             ELSE [r \in 1..(r1 - r0) |-> [c \in 1..(c1 - c0) |-> m[r0 + r][c0 + c]]]

\* data.window_transform(w) = data.transform * Affine.translation(col_off, row_off)
window_transform(T, w) ==
    Affine(T.a, T.b, T.a * w.col_off + T.b * w.row_off + T.c,
           T.d, T.e, T.d * w.col_off + T.e * w.row_off + T.f)

\* the file _create_dsm of dataset d writes and reads
tmp_name(d) == IF type[d] = "mesh" THEN MeshTmp ELSE tmp_file[d]

\* the raster the gridding pipeline of dataset d writes
Gridded(d) == writers_gdal(source[d].points, units_factor[d], resolution[d], d)

\* _create_dsm is called on a point cloud or a mesh
CreateDsmCall(d) ==
    /\ pc[d] \in {"idle", "done"}
    /\ type[d] \in {"pcloud", "mesh"}
    /\ calls[d] < MaxCalls
    /\ calls' = [calls EXCEPT ![d] = @ + 1]
    /\ pc' = [pc EXCEPT ![d] = IF type[d] = "pcloud" THEN "mkstemp" ELSE "execute"]
    /\ last' = [op |-> "_create_dsm", d |-> d]
    /\ UNCHANGED <<dataVars, prepVars, fs, tmp_file, source, err, config, reg>>

\* the windows a caller stores: the first cell of the raster, or its second
\* column
StoredWindows == {[col_off |-> c, row_off |-> 0, width |-> 1, height |-> 1] : c \in 0..1}

\* dataset_obj.window = ... of clip_data, on a dataset that is gridded
\* already; the _create_dsm call that follows it is CreateDsmCall
StoreWindow(d) ==
    /\ pc[d] = "done"
    /\ type[d] \in {"pcloud", "mesh"}
    /\ calls[d] < MaxCalls
    /\ window[d] = None
    /\ \E w \in StoredWindows : window' = [window EXCEPT ![d] = w]
    /\ last' = [op |-> "window", d |-> d]
    /\ UNCHANGED <<type, file, nodata, dsm, transform, crs, area_or_point, resolution,
                   native_resolution, units_factor, prepVars, fileVars, pc, err, config,
                   reg>>

\* PointCloud: file_handle, tmp_file = tempfile.mkstemp(suffix=".tif")
Mkstemp(d) ==
    /\ pc[d] = "mkstemp"
    /\ \E n \in MkstempNames :
          /\ fs[n] = Absent
          /\ fs' = [fs EXCEPT ![n] = [k |-> "empty", by |-> d]]
          /\ tmp_file' = [tmp_file EXCEPT ![d] = n]
    /\ pc' = [pc EXCEPT ![d] = "execute"]
    /\ UNCHANGED <<dataVars, prepVars, source, calls, err, config, reg, last>>

\* pipeline.execute() writes the raster
Execute(d) ==
    /\ pc[d] = "execute"
    /\ fs' = [fs EXCEPT ![tmp_name(d)] = Gridded(d)]
    /\ pc' = [pc EXCEPT ![d] = "read"]
    /\ UNCHANGED <<dataVars, prepVars, tmp_file, source, calls, err, config, reg, last>>

\* pipeline.execute() raises; the writer may have created its file already
ExecuteFail(d) ==
    /\ pc[d] = "execute"
    /\ \E wrote \in BOOLEAN :
          fs' = IF wrote THEN [fs EXCEPT ![tmp_name(d)] = [k |-> "partial", by |-> d]]
                ELSE fs
    /\ pc' = [pc EXCEPT ![d] = "raised"]
    /\ err' = [err EXCEPT ![d] = PipelineError]
    /\ UNCHANGED <<dataVars, prepVars, tmp_file, source, calls, config, reg, last>>

\* _read_dsm(file_path, force): PointCloud passes force=True, Mesh does not
ReadDsm(d) ==
    /\ pc[d] = "read"
    /\ LET force == type[d] = "pcloud"
           data == fs[tmp_name(d)]
       IN  IF Size(dsm[d]) = 0 \/ force
           THEN IF data.k = "raster"
                THEN /\ dsm' = [dsm EXCEPT ![d] = read_band(data.dsm, window[d])]
                     /\ transform' = [transform EXCEPT ![d] =
                            IF window[d] = None THEN data.transform
                            ELSE window_transform(data.transform, window[d])]
                     /\ nodata' = [nodata EXCEPT ![d] = data.nodata]
                     /\ crs' = [crs EXCEPT ![d] = data.crs]
                     /\ area_or_point' = [area_or_point EXCEPT ![d] = data.tags]
                     /\ pc' = [pc EXCEPT ![d] = "remove"]
                     /\ UNCHANGED err
                ELSE /\ pc' = [pc EXCEPT ![d] = "raised"]
                     /\ err' = [err EXCEPT ![d] = ReadError]
                     /\ UNCHANGED <<dsm, transform, nodata, crs, area_or_point>>
           ELSE /\ pc' = [pc EXCEPT ![d] = "remove"]
                /\ UNCHANGED <<err, dsm, transform, nodata, crs, area_or_point>>
    /\ UNCHANGED <<type, file, window, resolution, native_resolution, units_factor,
                   prepVars, fileVars, config, reg, last>>

\* rasterio.open or data.read raises although the raster is there
ReadFail(d) ==
    /\ pc[d] = "read"
    /\ Size(dsm[d]) = 0 \/ type[d] = "pcloud"
    /\ pc' = [pc EXCEPT ![d] = "raised"]
    /\ err' = [err EXCEPT ![d] = ReadError]
    /\ UNCHANGED <<dataVars, prepVars, fileVars, config, reg, last>>

\* os.remove(tmp_file), os.remove("temp_dsm.tif")
Remove(d) ==
    /\ pc[d] = "remove"
    /\ IF fs[tmp_name(d)] = Absent
       THEN /\ pc' = [pc EXCEPT ![d] = "raised"]
            /\ err' = [err EXCEPT ![d] = FileNotFound]
            /\ UNCHANGED fs
       ELSE /\ fs' = [fs EXCEPT ![tmp_name(d)] = Absent]
            /\ pc' = [pc EXCEPT ![d] = "done"]
            /\ UNCHANGED err
    /\ UNCHANGED <<dataVars, prepVars, tmp_file, source, calls, config, reg, last>>

\* ------------------------------------------------------------ gridding: inputs
PointSets == {{<<0, 0, 1>>}, {<<0, 0, 0>>, <<2, 0, 1>>}, {<<0, 0, 1>>, <<0, 2, 0>>}}
GridResolutions == {1, 2}

\* Two datasets that are point clouds or meshes, instantiated, their pipeline
\* resolution set, _create_dsm not called yet
InitCreate ==
    /\ type \in [DS -> {"pcloud", "mesh"}]
    /\ config = Config(Path("fnd", IF type["fnd"] = "pcloud" THEN ".las" ELSE ".obj"),
                       Path("aoi", IF type["aoi"] = "pcloud" THEN ".las" ELSE ".obj"),
                       FALSE, DefaultFiletypes)
    /\ file = [d \in DS |-> FileOf(config, d)]
    /\ source \in [DS -> [points : PointSets]]
    /\ resolution \in [DS -> GridResolutions]
    /\ nodata = [d \in DS |-> None]
    /\ dsm = [d \in DS |-> EmptyArray]
    /\ transform = [d \in DS |-> None]
    /\ crs = [d \in DS |-> None]
    /\ area_or_point = [d \in DS |-> "Undefined"]
    /\ window = [d \in DS |-> None]
    /\ native_resolution = [d \in DS |-> 1]
    /\ units_factor = [d \in DS |-> 1]
    /\ infilled = [d \in DS |-> Unset]
    /\ nodata_mask = [d \in DS |-> Unset]
    /\ normed = [d \in DS |-> EmptyArray]
    /\ point_cloud = [d \in DS |-> EmptyArray]
    /\ normal_vectors = [d \in DS |-> EmptyArray]
    /\ processed = [d \in DS |-> FALSE]
    /\ pc = [d \in DS |-> "idle"]
    /\ err = [d \in DS |-> None]
    /\ trace = [d \in DS |-> << >>]
    /\ l_infilled = [d \in DS |-> Unset]
    /\ l_mask = [d \in DS |-> Unset]
    /\ infill_mask = [d \in DS |-> Unset]
    /\ fs = NoFiles
    /\ tmp_file = [d \in DS |-> None]
    /\ calls = [d \in DS |-> 0]
    /\ reg = None
    /\ last = [op |-> "none"]

NextCreate ==
    \E d \in DS :
        \/ CreateDsmCall(d)
        \/ StoreWindow(d)
        \/ Mkstemp(d)
        \/ Execute(d)
        \/ ExecuteFail(d)
        \/ ReadDsm(d)
        \/ ReadFail(d)
        \/ Remove(d)

SpecCreate == InitCreate /\ [][NextCreate]_vars

\* ------------------------------------------------------------ gridding: claims
\* the call of _create_dsm on dataset d has ended
Ended(d) == pc[d] \in {"done", "raised"}
\* the temporary files dataset d created that still exist
Leftover(d) == {n \in FileNames : fs[n] # Absent /\ fs[n].by = d}

\* C5: the temporary raster created by PointCloud._create_dsm or
\* Mesh._create_dsm no longer exists when the call ends, on every exit path
\* (normal return, failure of the gridding pipeline, failure of the read-back).
C5_TempRemoved == \A d \in DS : Ended(d) => Leftover(d) = {}

\* C5 on the normal return alone
C5_TempRemovedOnReturn == \A d \in DS : pc[d] = "done" => Leftover(d) = {}

\* C6: when both datasets run _create_dsm concurrently, each reads back
\* exactly the raster it wrote itself, and no step of one dataset deletes or
\* overwrites a temporary raster the other one wrote.
C6_ReadOwn ==
    \A d \in DS :
        (pc[d] \in {"remove", "done"} /\ calls[d] = 1) =>
            /\ dsm[d] = Gridded(d).dsm
            /\ transform[d] = Gridded(d).transform
C6_NoForeignTouch ==
    \A d \in DS, n \in FileNames :
        (pc'[d] # pc[d] /\ fs[n] # Absent /\ fs'[n] # fs[n]) => fs[n].by = d
C6_Isolated == [](C6_ReadOwn) /\ [][C6_NoForeignTouch]_vars

\* ------------------------------------------------------------ instantiate
Unsupported == Raised("NotImplementedError", "File type not currently supported.")
BadTransform == Raised("ValueError", "no transform, a rotation, or different X and Y scales")

Abs(x) == IF x < 0 THEN 0 - x ELSE x
Identity == Affine(1, 0, 0, 0, 1, 0)
\* Affine.is_conformal: the two axes stay perpendicular
is_conformal(T) == T.a * T.b + T.d * T.e = 0
\* Affine._scaling, squared: the lengths of the two axes
scaling_sq(T) == <<T.a * T.a + T.d * T.d, T.b * T.b + T.e * T.e>>

\* a coordinate reference system; uf is its linear_units_factor
Crs(name, projected, uf) == [k |-> "crs", name |-> name, projected |-> projected, uf |-> uf]
UtmA == Crs("EPSG:32615", TRUE, 1)
UtmB == Crs("EPSG:32616", TRUE, 1)
Wgs84 == Crs("EPSG:4326", FALSE, 1)

\* _calculate_resolution of the three classes on what the file holds:
\* [err, native_resolution, units_factor, crs], crs being what self.crs is
\* after the call (only the geographic branch of DSM assigns it)
calculate_resolution(kind, src) ==
    IF kind = "dsm"
    THEN IF src.transform = Identity \/ ~is_conformal(src.transform)
            \/ scaling_sq(src.transform)[1] # scaling_sq(src.transform)[2]
         THEN [err |-> BadTransform]
         ELSE IF src.crs = None
              THEN [err |-> None, native_resolution |-> Abs(src.transform.a),
                    units_factor |-> 1, crs |-> None]
              ELSE IF ~src.crs.projected
                   THEN [err |-> None, native_resolution |-> src.utm_res,
                         units_factor |-> 1, crs |-> UtmA]
                   ELSE [err |-> None,
                         native_resolution |-> Abs(src.transform.a) * src.crs.uf,
                         units_factor |-> src.crs.uf, crs |-> None]
    ELSE IF kind = "pcloud"
         THEN LET uf == IF src.crs = None \/ ~src.crs.projected THEN 1 ELSE src.crs.uf
              IN  [err |-> None, native_resolution |-> uf * src.spacing,
                   units_factor |-> uf, crs |-> None]
         ELSE [err |-> None, native_resolution |-> src.spacing * src.mesh_uf,
               units_factor |-> src.mesh_uf, crs |-> None]

kind_of_pcloud_first(ext, cfg) ==
    IF ext \in cfg.dsm_filetypes THEN "dsm"
    ELSE IF ext \in cfg.pcloud_filetypes THEN "pcloud"
    ELSE IF ext \in cfg.mesh_filetypes THEN "mesh"
    ELSE "unsupported"

\* the class instantiate picks for an extension
kind_of(ext, cfg) ==
    IF ext \in cfg.dsm_filetypes THEN "dsm"
    ELSE IF ext \in cfg.mesh_filetypes THEN "mesh"
    ELSE IF ext \in cfg.pcloud_filetypes THEN "pcloud"
    ELSE "unsupported"

\* instantiate(config, fnd): the dataset exists (pc "idle") when it returns
Instantiate(d) ==
    /\ pc[d] = "new"
    /\ LET ext == splitext(FileOf(config, d))[2]
           kind == kind_of(ext, config)
           res == calculate_resolution(kind, source[d])
       IN  /\ last' = [op |-> "instantiate", d |-> d, ext |-> ext]
           /\ IF kind = "unsupported"
              THEN /\ pc' = [pc EXCEPT ![d] = "raised"]
                   /\ err' = [err EXCEPT ![d] = Unsupported]
                   /\ UNCHANGED <<type, file, native_resolution, units_factor, crs>>
              ELSE IF res.err # None
                   THEN /\ pc' = [pc EXCEPT ![d] = "raised"]
                        /\ err' = [err EXCEPT ![d] = res.err]
                        /\ UNCHANGED <<type, file, native_resolution, units_factor, crs>>
                   ELSE /\ pc' = [pc EXCEPT ![d] = "idle"]
                        /\ type' = [type EXCEPT ![d] = kind]
                        /\ file' = [file EXCEPT ![d] = FileOf(config, d)]
                        /\ native_resolution' = [native_resolution EXCEPT ![d] = res.native_resolution]
                        /\ units_factor' = [units_factor EXCEPT ![d] = res.units_factor]
                        /\ crs' = [crs EXCEPT ![d] = res.crs]
                        /\ UNCHANGED err
    /\ UNCHANGED <<nodata, dsm, transform, area_or_point, window, resolution,
                   prepVars, fileVars, config, reg>>

resolution_rejects_negative(value) == value < 0

\* the test of the resolution setter
resolution_rejects(value) == value <= 0

\* dataset.resolution = value
SetResolution(d, value) ==
    /\ pc[d] = "idle"
    /\ IF resolution_rejects(value)
       THEN /\ last' = [op |-> "resolution", d |-> d, value |-> value,
                        old |-> resolution[d],
                        raised |-> Raised("ValueError", "Resolution must be greater than 0")]
            /\ UNCHANGED resolution
       ELSE /\ last' = [op |-> "resolution", d |-> d, value |-> value,
                        old |-> resolution[d], raised |-> None]
            /\ resolution' = [resolution EXCEPT ![d] = value]
    /\ UNCHANGED <<type, file, nodata, dsm, transform, crs, area_or_point, window,
                   native_resolution, units_factor, prepVars, fileVars, pc, err, config, reg>>

\* ------------------------------------------------------------ instantiate: inputs
Exts == {".tif", ".ply", ".xyz"}
\* every way to sort ".tif" and ".ply" into the three extension sets
FiletypeConfigs ==
    [dsm_filetypes : SUBSET {".tif", ".ply"},
     mesh_filetypes : SUBSET {".tif", ".ply"},
     pcloud_filetypes : SUBSET {".tif", ".ply"}]
InstSources ==
    {[transform |-> Identity, crs |-> None, utm_res |-> 1, spacing |-> 1, mesh_uf |-> 1],
     [transform |-> NorthUp(2, 0, 0), crs |-> None, utm_res |-> 1, spacing |-> 1, mesh_uf |-> 1],
     [transform |-> NorthUp(2, 0, 0), crs |-> UtmA, utm_res |-> 1, spacing |-> 2, mesh_uf |-> 1],
     [transform |-> NorthUp(1, 0, 0), crs |-> Wgs84, utm_res |-> 2, spacing |-> 1, mesh_uf |-> 1],
     [transform |-> Affine(1, 0, 0, 0, 0 - 2, 0), crs |-> None, utm_res |-> 1, spacing |-> 1, mesh_uf |-> 1]}
Resolutions == (0 - 1)..MaxRes

\* nothing is instantiated yet: both datasets hold what GeoData.__init__ sets
InitInst ==
    /\ \E ft \in FiletypeConfigs, fe \in Exts, ae \in Exts :
          config = Config(Path("fnd", fe), Path("aoi", ae), FALSE, ft)
    /\ source \in [DS -> InstSources]
    /\ type = [d \in DS |-> "undefined"]
    /\ file = [d \in DS |-> None]
    /\ nodata = [d \in DS |-> None]
    /\ dsm = [d \in DS |-> EmptyArray]
    /\ transform = [d \in DS |-> None]
    /\ crs = [d \in DS |-> None]
    /\ area_or_point = [d \in DS |-> "Undefined"]
    /\ window = [d \in DS |-> None]
    /\ resolution = [d \in DS |-> 0]
    /\ native_resolution = [d \in DS |-> 0]
    /\ units_factor = [d \in DS |-> 1]
    /\ infilled = [d \in DS |-> Unset]
    /\ nodata_mask = [d \in DS |-> Unset]
    /\ normed = [d \in DS |-> EmptyArray]
    /\ point_cloud = [d \in DS |-> EmptyArray]
    /\ normal_vectors = [d \in DS |-> EmptyArray]
    /\ processed = [d \in DS |-> FALSE]
    /\ pc = [d \in DS |-> "new"]
    /\ err = [d \in DS |-> None]
    /\ trace = [d \in DS |-> << >>]
    /\ l_infilled = [d \in DS |-> Unset]
    /\ l_mask = [d \in DS |-> Unset]
    /\ infill_mask = [d \in DS |-> Unset]
    /\ fs = NoFiles
    /\ tmp_file = [d \in DS |-> None]
    /\ calls = [d \in DS |-> 0]
    /\ reg = None
    /\ last = [op |-> "none"]

NextInst ==
    \E d \in DS :
        \/ Instantiate(d)
        \/ \E value \in Resolutions : SetResolution(d, value)

SpecInst == InitInst /\ [][NextInst]_vars

\* ------------------------------------------------------------ instantiate: claims
\* C8: instantiate returns a dataset of the one kind its file extension
\* selects (raster set -> DSM, else mesh set -> Mesh, else point-cloud set ->
\* PointCloud), and for an extension in none of the sets it raises the
\* unsupported-format error and constructs no dataset.
C8_Instantiate ==
    last.op = "instantiate" =>
        LET d == last.d
            ext == FileOf(config, d).ext
            sets == <<config.dsm_filetypes, config.mesh_filetypes, config.pcloud_filetypes>>
            kinds == <<"dsm", "mesh", "pcloud">>
        IN  /\ pc[d] = "idle" =>
                  \E i \in 1..3 : /\ ext \in sets[i]
                                  /\ \A j \in 1..(i - 1) : ext \notin sets[j]
                                  /\ type[d] = kinds[i]
            /\ (\A i \in 1..3 : ext \notin sets[i]) =>
                  /\ pc[d] = "raised"
                  /\ err[d] = Unsupported
                  /\ type[d] = "undefined"
                  /\ file[d] = None

C8_Witness ==
    /\ last.op = "instantiate"
    /\ pc["fnd"] = "idle" /\ type["fnd"] = "mesh"
    /\ FileOf(config, "fnd").ext \in config.mesh_filetypes \cap config.pcloud_filetypes
    /\ pc["aoi"] = "raised" /\ err["aoi"] = Unsupported

\* C9: setting resolution to a value <= 0 raises the invalid-resolution error
\* and leaves the stored resolution unchanged; setting a value > 0 stores
\* exactly that value.
C9_Resolution ==
    last.op = "resolution" =>
        IF last.value <= 0
        THEN last.raised # None /\ resolution[last.d] = last.old
        ELSE last.raised = None /\ resolution[last.d] = last.value

C9_Witness ==
    /\ last.op = "resolution"
    /\ last.value = 0
    /\ last.old > 0
    /\ resolution[last.d] = last.old

\* ------------------------------------------------------------ DSM._create_dsm
\* the values data.read yields for out_shape: the cell of the region each
\* output cell falls in (the interpolation itself is the library's)
resample(region, shape) ==
    IF Size(region) = 0 THEN EmptyArray
    ELSE [r \in 1..shape[1] |-> [c \in 1..shape[2] |->
             region[((r - 1) * Rows(region)) \div shape[1] + 1]
                   [((c - 1) * Cols(region)) \div shape[2] + 1]]]

\* T * Affine.scale(sx, sy) for sx = nx / dx and sy = ny / dy
post_scale(T, nx, dx, ny, dy) ==
    Affine((T.a * nx) \div dx, (T.b * ny) \div dy, T.c,
           (T.d * nx) \div dx, (T.e * ny) \div dy, T.f)

\* Affine.scale(uf, uf) * T
pre_scale(uf, T) == Affine(uf * T.a, uf * T.b, uf * T.c, uf * T.d, uf * T.e, uf * T.f)

\* self.dsm[mask] *= self.units_factor, after _get_nodata_mask wrote nodata
\* over the NaN cells
scale_valid(a, nd, uf) ==
    LET b == nan_to_nodata(a, nd)
        mask == get_nodata_mask(a, nd)
    IN  [r \in 1..Rows(b) |-> [c \in 1..Cols(b) |->
            IF mask[r][c] = 1 /\ b[r][c].k = "num" THEN Num(b[r][c].v * uf) ELSE b[r][c]]]

\* DSM._create_dsm of a dataset with a projected or absent CRS on the raster
\* file data: the fields it assigns
dsm_create_dsm(data, native, res, w, uf, resamples) ==
    LET height == Rows(data.dsm)
        width == Cols(data.dsm)
        resampling == resamples /\ native # res
        out_shape == <<(height * native) \div res, (width * native) \div res>>
        read == IF resampling THEN resample(read_band(data.dsm, w), out_shape)
                ELSE read_band(data.dsm, w)
        base == IF w = None THEN data.transform ELSE window_transform(data.transform, w)
        T == IF resampling /\ Size(read) > 0
             THEN post_scale(base, width, Cols(read), height, Rows(read))
             ELSE base
    IN  [dsm |-> scale_valid(read, data.nodata, uf),
         transform |-> pre_scale(uf, T),
         nodata |-> data.nodata,
         crs |-> data.crs,
         area_or_point |-> IF data.tags = "Point" THEN "Point" ELSE "Area"]

\* ------------------------------------------------------------ clip_data
\* oversize_scale = 1.5, in half units
oversize_scale2 == 3

CrsMissing == Raised("AttributeError", "the CRS of both datasets must be defined and equal")
CrsUnequal == Raised("ValueError", "the CRS of both datasets must be equal")
Disjoint == Raised("ValueError", "Bounding boxes for foundation and compliment are disjoint")

BoundingBox(left, bottom, right, top) ==
    [left |-> left, bottom |-> bottom, right |-> right, top |-> top]

\* the box of one pass of the loop, in half units: scaling2 is twice the
\* scaling; (left, top) = transform * (0, 0) and (right, bottom) =
\* transform * dsm.shape for transform = T * Affine.scale(scaling)
bounding_box(T, shape, scaling2) ==
    BoundingBox(2 * T.c,
                scaling2 * (T.d * shape[1] + T.e * shape[2]) + 2 * T.f,
                scaling2 * (T.a * shape[1] + T.b * shape[2]) + 2 * T.c,
                2 * T.f)

adjusted_not(orig, scaled) == scaled

\* the scaled box after the left/top adjustment
adjusted(orig, scaled) ==
    BoundingBox(scaled.left - Abs(scaled.right - orig.right),
                scaled.bottom,
                scaled.right,
                scaled.top + Abs(scaled.bottom - orig.bottom))

\* rasterio.coords.disjoint_bounds
disjoint_bounds(b1, b2) ==
    IF b1.top > b1.bottom
    THEN \/ b1.left > b2.right \/ b2.left > b1.right
         \/ b1.bottom > b2.top \/ b2.bottom > b1.top
    ELSE \/ b1.left > b2.right \/ b2.left > b1.right
         \/ b1.top > b2.bottom \/ b2.top > b1.bottom

clamp_own(edge, scaled) == edge

\* one box of compute_clipped_bounds: the own original box clamped by the
\* other dataset's scaled box
clamp(edge, scaled) ==
    BoundingBox(MaxOf({edge.left, scaled.left}), MaxOf({edge.bottom, scaled.bottom}),
                MinOf({edge.right, scaled.right}), MinOf({edge.top, scaled.top}))

compute_clipped_bounds(original, scaled) ==
    [d \in DS |-> clamp(original[d], scaled[CHOOSE o \in DS : o # d])]

FloorDiv(n, m) == IF m > 0 THEN n \div m ELSE (0 - n) \div (0 - m)

\* AffineTransformer(T).rowcol of a point given in half units, for a
\* transform without rotation: <<row, col>>
rowcol(T, x2, y2) == <<FloorDiv(y2 - 2 * T.f, 2 * T.e), FloorDiv(x2 - 2 * T.c, 2 * T.a)>>

Window(col_off, row_off, width, height) ==
    [col_off |-> col_off, row_off |-> row_off, width |-> width, height |-> height]

\* windows.Window.from_slices(slice(r0, r1), slice(c0, c1))
from_slices(r0, r1, c0, c1) ==
    Window(c0, r0, IF c1 > c0 THEN c1 - c0 ELSE 0, IF r1 > r0 THEN r1 - r0 ELSE 0)

\* the window clip_data stores for a clipped box
clip_window(T, box) ==
    LET tl == rowcol(T, box.left, box.top)
        br == rowcol(T, box.right, box.bottom)
    IN  from_slices(tl[1], br[1], tl[2], br[2])

disjoint_tested_original(original, scaled) == original

\* the dict the name bounding_boxes is bound to when the disjoint test runs:
\* the one the last pass of the loop assigned, scaled_bounding_boxes, which
\* the adjustment loop has updated in place
disjoint_tested(original, scaled) == scaled

crs_check_equal_only(f, a) == IF f # a THEN CrsUnequal ELSE None

\* what the two CRS tests of clip_data raise
crs_check(f, a) ==
    IF f = None \/ a = None THEN CrsMissing
    ELSE IF f # a THEN CrsUnequal
    ELSE None

\* clip_data(fnd_obj, aoi_obj, config) on two gridded DSM datasets
ClipData ==
    /\ \A d \in DS : pc[d] = "idle" /\ type[d] = "dsm"
    /\ last.n < MaxClips
    /\ LET old == [d \in DS |-> [window |-> window[d], dsm |-> dsm[d], transform |-> transform[d]]]
           original == [d \in DS |-> bounding_box(transform[d], Shape(dsm[d]), 2)]
           scaled == [d \in DS |-> adjusted(original[d],
                          bounding_box(transform[d], Shape(dsm[d]), oversize_scale2))]
           clipped == compute_clipped_bounds(original, scaled)
           win == [d \in DS |-> clip_window(transform[d], clipped[d])]
           new == [d \in DS |-> dsm_create_dsm(source[d], native_resolution[d],
                          resolution[d], win[d], units_factor[d], TRUE)]
           report(e, o, s, c) == [op |-> "clip_data", n |-> last.n + 1, raised |-> e,
                                  old |-> old, original |-> o, scaled |-> s, clipped |-> c]
       IN  IF ~config.TIGHT_SEARCH
           THEN /\ last' = report(None, None, None, None)
                /\ UNCHANGED <<window, dsm, transform, nodata, crs, area_or_point>>
           ELSE IF crs_check(crs["fnd"], crs["aoi"]) # None
                THEN /\ last' = report(crs_check(crs["fnd"], crs["aoi"]), None, None, None)
                     /\ UNCHANGED <<window, dsm, transform, nodata, crs, area_or_point>>
                ELSE IF disjoint_bounds(disjoint_tested(original, scaled)["fnd"],
                                         disjoint_tested(original, scaled)["aoi"])
                     THEN /\ last' = report(Disjoint, original, scaled, None)
                          /\ UNCHANGED <<window, dsm, transform, nodata, crs, area_or_point>>
                     ELSE /\ last' = report(None, original, scaled, clipped)
                          /\ window' = win
                          /\ dsm' = [d \in DS |-> new[d].dsm]
                          /\ transform' = [d \in DS |-> new[d].transform]
                          /\ nodata' = [d \in DS |-> new[d].nodata]
                          /\ crs' = [d \in DS |-> new[d].crs]
                          /\ area_or_point' = [d \in DS |-> new[d].area_or_point]
    /\ UNCHANGED <<type, file, resolution, native_resolution, units_factor,
                   prepVars, fileVars, pc, err, config, reg>>

\* ------------------------------------------------------------ clip_data: inputs
\* rasters whose cells hold their own row-major index
IndexRaster(shape) ==
    [r \in 1..shape[1] |-> [c \in 1..shape[2] |-> Num((r - 1) * shape[2] + c)]]
ClipShapes == {<<2, 2>>, <<2, 4>>, <<4, 2>>, <<4, 4>>}
ClipCrs == {None, UtmA, UtmB}
RasterFile(shape, T, c) ==
    [k |-> "raster", dsm |-> IndexRaster(shape), transform |-> T, nodata |-> GdalNodata,
     crs |-> c, tags |-> "Area", utm_res |-> 1, spacing |-> 1, mesh_uf |-> 1]
FndRasters == {RasterFile(s, NorthUp(p, 0, 16), c) : s \in ClipShapes, p \in {2, 4}, c \in ClipCrs}
AoiRasters ==
    {RasterFile(s, NorthUp(p, x0, y0), c) :
        s \in ClipShapes, p \in {2, 4}, x0 \in {0, 4, 8, 40}, y0 \in {16, 20}, c \in ClipCrs}

\* both datasets are instantiated DSMs, given the common pipeline resolution
\* (the coarser of the two native ones) and gridded by _create_dsm
InitClip ==
    /\ \E tight \in BOOLEAN :
          config = Config(Path("fnd", ".tif"), Path("aoi", ".tif"), tight, DefaultFiletypes)
    /\ source \in [DS -> FndRasters \cup AoiRasters]
    /\ source["fnd"] \in FndRasters
    /\ source["aoi"] \in AoiRasters
    /\ type = [d \in DS |-> kind_of(FileOf(config, d).ext, config)]
    /\ file = [d \in DS |-> FileOf(config, d)]
    /\ native_resolution = [d \in DS |-> calculate_resolution(type[d], source[d]).native_resolution]
    /\ units_factor = [d \in DS |-> calculate_resolution(type[d], source[d]).units_factor]
    /\ resolution = [d \in DS |-> MaxOf({native_resolution[o] : o \in DS})]
    /\ window = [d \in DS |-> None]
    /\ LET new == [d \in DS |-> dsm_create_dsm(source[d], native_resolution[d],
                                    resolution[d], None, units_factor[d], TRUE)]
       IN  /\ dsm = [d \in DS |-> new[d].dsm]
           /\ transform = [d \in DS |-> new[d].transform]
           /\ nodata = [d \in DS |-> new[d].nodata]
           /\ crs = [d \in DS |-> new[d].crs]
           /\ area_or_point = [d \in DS |-> new[d].area_or_point]
    /\ infilled = [d \in DS |-> Unset]
    /\ nodata_mask = [d \in DS |-> Unset]
    /\ normed = [d \in DS |-> EmptyArray]
    /\ point_cloud = [d \in DS |-> EmptyArray]
    /\ normal_vectors = [d \in DS |-> EmptyArray]
    /\ processed = [d \in DS |-> FALSE]
    /\ pc = [d \in DS |-> "idle"]
    /\ err = [d \in DS |-> None]
    /\ trace = [d \in DS |-> << >>]
    /\ l_infilled = [d \in DS |-> Unset]
    /\ l_mask = [d \in DS |-> Unset]
    /\ infill_mask = [d \in DS |-> Unset]
    /\ fs = NoFiles
    /\ tmp_file = [d \in DS |-> None]
    /\ calls = [d \in DS |-> 0]
    /\ reg = None
    /\ last = [op |-> "none", n |-> 0]

NextClip == ClipData

SpecClip == InitClip /\ [][NextClip]_vars

\* ------------------------------------------------------------ clip_data: claims
Untouched(d) ==
    /\ window[d] = last.old[d].window
    /\ dsm[d] = last.old[d].dsm
    /\ transform[d] = last.old[d].transform

\* C10: with TIGHT_SEARCH enabled, clip_data raises when either dataset's CRS
\* is absent or when the two CRSes differ, and then neither dataset's
\* window, dsm nor transform is modified.
C10_CrsRejected ==
    (/\ last.op = "clip_data"
     /\ config.TIGHT_SEARCH
     /\ (crs["fnd"] = None \/ crs["aoi"] = None \/ crs["fnd"] # crs["aoi"]))
        => /\ last.raised \in {CrsMissing, CrsUnequal}
           /\ \A d \in DS : Untouched(d)

C10_Witness ==
    /\ last.op = "clip_data"
    /\ config.TIGHT_SEARCH
    /\ crs["fnd"] = UtmA /\ crs["aoi"] = UtmB
    /\ last.raised = CrsUnequal
    /\ \A d \in DS : Untouched(d) /\ window[d] = None

\* a successful clip_data does store windows and replace rasters
ClipModifies ==
    /\ last.op = "clip_data"
    /\ last.raised = None
    /\ \E d \in DS : window[d] # None /\ dsm[d] # last.old[d].dsm

\* the closed rectangles of two boxes have a point in common
Overlap(b1, b2) ==
    /\ MaxOf({b1.left, b2.left}) <= MinOf({b1.right, b2.right})
    /\ MaxOf({b1.bottom, b2.bottom}) <= MinOf({b1.top, b2.top})

\* clip_data got past the CRS tests and computed its boxes
BoxesComputed == last.op = "clip_data" /\ last.scaled # None

C11_WitnessInflatedOnly ==
    /\ BoxesComputed
    /\ ~Overlap(last.original["fnd"], last.original["aoi"])
    /\ Overlap(last.scaled["fnd"], last.scaled["aoi"])
    /\ last.raised = None

\* the world extent, in half units, of a raster of R rows and C columns under
\* transform T: (left, top) = T * (0, 0), (right, bottom) = T * (C, R)
WorldExtent(T, R, C) ==
    BoundingBox(2 * T.c, 2 * (T.d * C + T.e * R) + 2 * T.f,
                2 * (T.a * C + T.b * R) + 2 * T.c, 2 * T.f)

\* C12: the original bounding box clip_data computes for a dataset is the
\* world extent of its raster, (right, bottom) = transform * (C, R), for
\* every R and C.
C12_OriginalBox ==
    BoxesComputed =>
        \A d \in DS :
            last.original[d] =
                WorldExtent(last.old[d].transform, Rows(last.old[d].dsm), Cols(last.old[d].dsm))

\* for a raster with as many rows as columns the box is the world extent
C12_OriginalBoxSquare ==
    BoxesComputed =>
        \A d \in DS :
            Rows(last.old[d].dsm) = Cols(last.old[d].dsm) =>
                last.original[d] =
                    WorldExtent(last.old[d].transform, Rows(last.old[d].dsm), Cols(last.old[d].dsm))

BoxesClipped == last.op = "clip_data" /\ last.clipped # None
Other(d) == CHOOSE o \in DS : o # d
Larger(x, y) == IF x >= y THEN x ELSE y
Smaller(x, y) == IF x <= y THEN x ELSE y
\* the four edges of box c lie within the sides of box b
EdgesWithin(c, b) ==
    /\ b.left <= c.left /\ c.left <= b.right
    /\ b.left <= c.right /\ c.right <= b.right
    /\ b.bottom <= c.bottom /\ c.bottom <= b.top
    /\ b.bottom <= c.top /\ c.top <= b.top
ClippedByRule(d) ==
    LET o == last.original[d]
        i == last.scaled[Other(d)]
        c == last.clipped[d]
    IN  /\ c.left = Larger(o.left, i.left)
        /\ c.bottom = Larger(o.bottom, i.bottom)
        /\ c.right = Smaller(o.right, i.right)
        /\ c.top = Smaller(o.top, i.top)

SecondCall ==
    /\ last.op = "clip_data"
    /\ last.n = 2
    /\ \A d \in DS : last.old[d].window # None

\* C15: clip_data is idempotent: a second call on the same two datasets
\* leaves each dataset with the window the first call stored.
C15_Idempotent ==
    SecondCall => \A d \in DS : window[d] = last.old[d].window

\* ------------------------------------------------------------ floating point
\* A real number is a fraction <<n, d>> in lowest terms with d > 0.  A float
\* is a real with a significand of MantissaBits bits; every arithmetic
\* operation of numpy yields the float nearest to the exact result (ties to
\* the even significand).
RECURSIVE GCD(_, _)
GCD(a, b) == IF b = 0 THEN a ELSE GCD(b, a % b)
Rat(n, d) ==
    LET g == GCD(Abs(n), Abs(d))
        sgn == IF d < 0 THEN 0 - 1 ELSE 1
    IN  IF n = 0 THEN <<0, 1>> ELSE <<sgn * (n \div g), sgn * (d \div g)>>
RInt(i) == <<i, 1>>
RAdd(x, y) ==
    LET g == GCD(x[2], y[2])
    IN  Rat(x[1] * (y[2] \div g) + y[1] * (x[2] \div g), (x[2] \div g) * y[2])
RSub(x, y) == RAdd(x, <<0 - y[1], y[2]>>)
RMul(x, y) ==
    LET a == Rat(x[1], y[2])
        b == Rat(y[1], x[2])
    IN  <<a[1] * b[1], a[2] * b[2]>>
RDiv(x, y) == RMul(x, Rat(y[2], y[1]))
RLe(x, y) == RSub(x, y)[1] <= 0
RLt(x, y) == RSub(x, y)[1] < 0
RAbs(x) == <<Abs(x[1]), x[2]>>
RECURSIVE Pow2(_)
Pow2(k) == IF k = 0 THEN 1 ELSE 2 * Pow2(k - 1)
\* the significand m of a float: MantissaLow <= m < MantissaTop
MantissaTop == Pow2(MantissaBits)
MantissaLow == Pow2(MantissaBits - 1)
\* n / d = (n' / d') * 2^e with MantissaLow <= n' / d' < MantissaTop
RECURSIVE Normalised(_, _, _)
Normalised(n, d, e) ==
    IF n >= MantissaTop * d THEN Normalised(n, 2 * d, e + 1)
    ELSE IF n < MantissaLow * d THEN Normalised(2 * n, d, e - 1)
    ELSE <<n, d, e>>
Scaled(m, e) == IF e >= 0 THEN Rat(m * Pow2(e), 1) ELSE Rat(m, Pow2(0 - e))
\* round to nearest, ties to even: the significand for quotient m, remainder
\* r and divisor d
Nearest(m, r, d) == IF 2 * r > d \/ (2 * r = d /\ m % 2 = 1) THEN m + 1 ELSE m
RoundNormalised(nde) ==
    Scaled(Nearest(nde[1] \div nde[2], nde[1] % nde[2], nde[2]), nde[3])
Signed(x, mag) == IF x[1] < 0 THEN <<0 - mag[1], mag[2]>> ELSE mag
\* the float nearest to the real x
fl(x) ==
    IF x[2] = 1 /\ Abs(x[1]) < MantissaTop THEN x
    ELSE Signed(x, RoundNormalised(Normalised(Abs(x[1]), x[2], 0)))
fadd(x, y) == fl(RAdd(x, y))
fmul(x, y) == fl(RMul(x, y))
fdiv(x, y) == fl(RDiv(x, y))
\* n / d = (n' / d') * 4^e with 4^(MantissaBits-1) <= n' / d' < 4^MantissaBits
RECURSIVE Normalised4(_, _, _)
Normalised4(n, d, e) ==
    IF n >= MantissaTop * MantissaTop * d THEN Normalised4(n, 4 * d, e + 1)
    ELSE IF n < MantissaLow * MantissaLow * d THEN Normalised4(4 * n, d, e - 1)
    ELSE <<n, d, e>>
\* the integer part of the square root of n / d, a significand
IntRoot(n, d) ==
    CHOOSE k \in MantissaLow..(MantissaTop - 1) :
        k * k * d <= n /\ n < (k + 1) * (k + 1) * d
\* the root rounded to nearest: m + 1 when n / d is above (m + 1/2)^2
NearestRoot(m, n, d) ==
    IF \/ 4 * n > (2 * m + 1) * (2 * m + 1) * d
       \/ (4 * n = (2 * m + 1) * (2 * m + 1) * d /\ m % 2 = 1)
    THEN m + 1 ELSE m
RootNormalised(nde) ==
    Scaled(NearestRoot(IntRoot(nde[1], nde[2]), nde[1], nde[2]), nde[3])
\* np.sqrt: the float nearest to the square root of x >= 0
fsqrt(x) == IF x[1] = 0 THEN x ELSE RootNormalised(Normalised4(x[1], x[2], 0))

\* ------------------------------------------------------------ get_registration_transformation
\* np.eye(4) * s with element [3, 3] then set to 1
eye_scaled(s) ==
    [i \in 1..4 |-> [j \in 1..4 |->
        IF i # j THEN fmul(RInt(0), s) ELSE IF i = 4 THEN RInt(1) ELSE fmul(RInt(1), s)]]
\* A @ B for 4 x 4 matrices
matmul(A, B) ==
    [i \in 1..4 |-> [j \in 1..4 |->
        fadd(fadd(fadd(fmul(A[i][1], B[1][j]), fmul(A[i][2], B[2][j])),
                  fmul(A[i][3], B[3][j])),
             fmul(A[i][4], B[4][j]))]]

aoi_to_fnd_array_swapped(R, aoi_uf, fnd_uf) ==
    matmul(matmul(eye_scaled(RInt(aoi_uf)), R), eye_scaled(fdiv(RInt(1), RInt(fnd_uf))))

\* aoi_to_fnd_array = meters_to_fnd @ registration_transform @ aoi_to_meters
aoi_to_fnd_array(R, aoi_uf, fnd_uf) ==
    matmul(matmul(eye_scaled(fdiv(RInt(1), RInt(fnd_uf))), R), eye_scaled(RInt(aoi_uf)))


\* the value get_registration_transformation returns: the array itself for a
\* mesh, a filters.transformation stage holding it otherwise
get_registration_transformation(r) ==
    LET T == aoi_to_fnd_array(r.registration_transform, r.aoi_units_factor, r.fnd_units_factor)
    IN  IF r.aoi_type = "mesh" THEN [k |-> "array", matrix |-> T]
        ELSE [k |-> "filter", type |-> "filters.transformation", matrix |-> T]

\* ------------------------------------------------------------ ApplyRegistration.__init__
\* a path with its directory; os.path.basename drops the directory and
\* os.path.join puts one in front
DirPath(dir, root, ext) == [dir |-> dir, root |-> root, ext |-> ext]
basename(path) == Path(path.root, path.ext)
join(dir, name) == DirPath(dir, name.root, name.ext)

\* an output_format argument is given by its pieces: <<".", "laz">> is ".laz"
\* and <<"laz">> is "laz"
Format(pieces) == [k |-> "str", pieces |-> pieces]
startswith_dot(fmt) == fmt.pieces[1] = "."
format_str(fmt) == IF Len(fmt.pieces) = 2 THEN fmt.pieces[1] \o fmt.pieces[2] ELSE fmt.pieces[1]

\* the extension __init__ gives the registered file
out_ext(ext, output_format) ==
    IF output_format # None
    THEN IF startswith_dot(output_format) THEN format_str(output_format)
         ELSE "." \o format_str(output_format)
    ELSE ext

\* self.out_name
out_name(aoi_file, output_dir, output_format) ==
    LET in_name == splitext(basename(aoi_file))
    IN  join(output_dir, Path(in_name[1] \o "_registered", out_ext(in_name[2], output_format)))

\* ApplyRegistration(fnd_obj, aoi_obj, registration_parameters,
\* residual_vectors, residual_origins, config, output_format)
Construct(matrix, residual_vectors, residual_origins, output_format) ==
    /\ reg = None
    /\ reg' = [fnd_crs |-> crs["fnd"],
               fnd_units_factor |-> units_factor["fnd"],
               aoi_file |-> file["aoi"],
               aoi_nodata |-> nodata["aoi"],
               aoi_resolution |-> native_resolution["aoi"],
               aoi_crs |-> crs["aoi"],
               aoi_units_factor |-> units_factor["aoi"],
               aoi_type |-> type["aoi"],
               aoi_area_or_point |-> area_or_point["aoi"],
               registration_transform |-> matrix,
               residual_vectors |-> residual_vectors,
               residual_origins |-> residual_origins,
               out_name |-> out_name(file["aoi"], config.OUTPUT_DIR, output_format)]
    /\ last' = [op |-> "init", output_format |-> output_format]
    /\ UNCHANGED <<dataVars, prepVars, fileVars, pc, err, config>>

\* a call of get_registration_transformation() on a newly built object
GetRegistrationTransformation ==
    /\ reg # None
    /\ last.op = "init"
    /\ last' = [op |-> "get_registration_transformation",
                returned |-> get_registration_transformation(reg)]
    /\ UNCHANGED <<dataVars, prepVars, fileVars, pc, err, config, reg>>


\* ------------------------------------------------------------ _interpolate_residuals
\* twice the signed area of the triangle a, b, c (points are <<x, y>>)
Cross(a, b, c) ==
    RSub(RMul(RSub(b[1], a[1]), RSub(c[2], a[2])), RMul(RSub(b[2], a[2]), RSub(c[1], a[1])))
Sign(x) == IF x[1] > 0 THEN 1 ELSE IF x[1] < 0 THEN 0 - 1 ELSE 0
SqDist(a, b) == RAdd(RMul(RSub(a[1], b[1]), RSub(a[1], b[1])), RMul(RSub(a[2], b[2]), RSub(a[2], b[2])))
\* the centre of the circle through a, b, c, times the doubled area d
\* (a, b, c not on one line), and d itself
Circum(a, b, c) ==
    LET sq(p) == RAdd(RMul(p[1], p[1]), RMul(p[2], p[2]))
        d == RMul(RInt(2), Cross(a, b, c))
        ux == RAdd(RAdd(RMul(sq(a), RSub(b[2], c[2])), RMul(sq(b), RSub(c[2], a[2]))),
                   RMul(sq(c), RSub(a[2], b[2])))
        uy == RAdd(RAdd(RMul(sq(a), RSub(c[1], b[1])), RMul(sq(b), RSub(a[1], c[1]))),
                   RMul(sq(c), RSub(b[1], a[1])))
    IN  <<RDiv(ux, d), RDiv(uy, d)>>
\* q lies strictly inside the circle through a, b, c
InCircle(a, b, c, q) ==
    LET o == Circum(a, b, c) IN RLt(SqDist(o, q), SqDist(o, a))
\* q lies in the closed triangle a, b, c
InTriangle(a, b, c, q) ==
    LET o == Sign(Cross(a, b, c))
    IN  /\ Sign(Cross(a, b, q)) * o >= 0
        /\ Sign(Cross(b, c, q)) * o >= 0
        /\ Sign(Cross(c, a, q)) * o >= 0
\* the line through a and b has the triangle's third corner c on one side
\* and none of the points of V strictly on that side
Separates(a, b, c, V) == \A v \in V : Sign(Cross(a, b, v)) * Sign(Cross(a, b, c)) <= 0
\* a triangle is three point indices in increasing order
Corners(t, xy) == {xy[t[1]], xy[t[2]], xy[t[3]]}
Edges(t) == {<<t[1], t[2], t[3]>>, <<t[2], t[3], t[1]>>, <<t[3], t[1], t[2]>>}
\* two triangles share no interior point
InteriorDisjoint(t1, t2, xy) ==
    \/ \E e \in Edges(t1) : Separates(xy[e[1]], xy[e[2]], xy[e[3]], Corners(t2, xy))
    \/ \E e \in Edges(t2) : Separates(xy[e[1]], xy[e[2]], xy[e[3]], Corners(t1, xy))
\* the triangles a Delaunay triangulation of the points xy can contain
DelaunayTriangles(xy) ==
    LET N == 1..Len(xy)
    IN  {t \in N \X N \X N :
            /\ t[1] < t[2] /\ t[2] < t[3]
            /\ Cross(xy[t[1]], xy[t[2]], xy[t[3]])[1] # 0
            /\ \A i \in N \ {t[1], t[2], t[3]} :
                  ~InCircle(xy[t[1]], xy[t[2]], xy[t[3]], xy[i])}
\* the triangles of TS overlap in no interior point
Apart(TS, xy) == \A t1 \in TS, t2 \in TS : t1 = t2 \/ InteriorDisjoint(t1, t2, xy)
\* the greatest sets of triangles of D that do not overlap
MaximalApart(D, xy) ==
    {TS \in SUBSET D :
        /\ TS # {}
        /\ Apart(TS, xy)
        /\ \A t \in D \ TS : ~Apart(TS \cup {t}, xy)}
\* Triangulation(x, y): the Delaunay triangulations of the points, more than
\* one when four of them lie on one circle; none when all lie on one line
Triangulations(xy) == MaximalApart(DelaunayTriangles(xy), xy)
barycentric_corner(t, xy, z, q) == z[t[1]]

\* the value at q of the function that is linear on the triangle and takes the
\* values z at its corners (the rounding of this arithmetic is not modelled)
Barycentric(t, xy, z, q) ==
    LET a == xy[t[1]]
        b == xy[t[2]]
        c == xy[t[3]]
        area == Cross(a, b, c)
    IN  RAdd(RAdd(RMul(RDiv(Cross(b, c, q), area), z[t[1]]),
                  RMul(RDiv(Cross(c, a, q), area), z[t[2]])),
             RMul(RDiv(Cross(a, b, q), area), z[t[3]]))
\* the triangles of TS that hold q (a point on a triangle's boundary is
\* taken to be found)
TrisAt(TS, xy, q) == {t \in TS : InTriangle(xy[t[1]], xy[t[2]], xy[t[3]], q)}
\* LinearTriInterpolator(triFn, z)(x, y) at one point whose triangles are
\* found: NaN outside every triangle
LinearTriInterpolator(found, xy, z, q) ==
    IF found # {} THEN Num(Barycentric(CHOOSE t \in found : TRUE, xy, z, q))
    ELSE NaN

Sentinel == Num(RInt(0 - 9999))
nan_to_sentinel_not(v) == v

\* interp[np.isnan(interp)] = -9999.0
nan_to_sentinel(v) == IF IsNaN(v) THEN Sentinel ELSE v

\* column k of an array of points or vectors, scaled by meters_to_fnd
scaled_column(r, a, k) ==
    [i \in 1..Len(a) |-> fmul(fdiv(RInt(1), RInt(r.fnd_units_factor)), RInt(a[i][k]))]
\* the scaled residual origins the triangulation is built on
fnd_res_origins(r) ==
    [i \in 1..Len(r.residual_origins) |->
        <<scaled_column(r, r.residual_origins, 1)[i], scaled_column(r, r.residual_origins, 2)[i]>>]
\* fnd_res_components_horiz and fnd_res_components_3d
horiz_of(x, y) ==
    [i \in DOMAIN x |-> fsqrt(fadd(fmul(x[i], x[i]), fmul(y[i], y[i])))]
norm_of(x, y, z) ==
    [i \in DOMAIN x |->
        fsqrt(fadd(fadd(fmul(x[i], x[i]), fmul(y[i], y[i])), fmul(z[i], z[i])))]
\* one interpolator's value at q, NaN replaced
interpolated(found, xy, z, q) == nan_to_sentinel(LinearTriInterpolator(found, xy, z, q))
\* the five outputs at the query point q, whose triangles are found
interpolate_at(found, xy, x, y, z, q) ==
    [x |-> interpolated(found, xy, x, q),
     y |-> interpolated(found, xy, y, q),
     z |-> interpolated(found, xy, z, q),
     horiz |-> interpolated(found, xy, horiz_of(x, y), q),
     threeD |-> interpolated(found, xy, norm_of(x, y, z), q)]
interpolate_points(xy, x, y, z, qs, TS) ==
    [i \in 1..Len(qs) |->
        interpolate_at(TrisAt(TS.triangles, xy, qs[i]), xy, x, y, z, qs[i])]
\* _interpolate_residuals(x, y) for the query points qs over triangulation
\* TS: one record of the five outputs for every query point
interpolate_residuals(r, qs, TS) ==
    interpolate_points(fnd_res_origins(r),
                       scaled_column(r, r.residual_vectors, 1),
                       scaled_column(r, r.residual_vectors, 2),
                       scaled_column(r, r.residual_vectors, 3), qs, TS)


\* ------------------------------------------------------------ apply
OpenError == Raised("RasterioIOError", "No such file or directory")
NotAStage == Raised("ValueError", "get_registration_transformation returned an array")
NotAStageTypeError == Raised("TypeError", "unsupported operand for |=")
ExportError == Raised("ValueError", "export type not supported")
QhullError == Raised("RuntimeError", "Error in qhull Delaunay triangulation calculation")

\* the point p = <<x, y, z>> under the 4 x 4 matrix T
transform_point(T, p) ==
    [i \in 1..3 |->
        fadd(fadd(fadd(fmul(T[i][1], p[1]), fmul(T[i][2], p[2])), fmul(T[i][3], p[3])), T[i][4])]
RealPoint(p) == <<RInt(p[1]), RInt(p[2]), RInt(p[3])>>

\* the value a float array holds after it is assigned v: None becomes NaN
as_real(v) == IF v = None THEN NaN ELSE IF v.k = "num" THEN Num(RInt(v.v)) ELSE v

\* transform * (u, v) for the cell in row r, column c: its centre for an
\* "Area" raster, its upper left corner otherwise
cell_xy(T, r, c, aop) ==
    LET u == IF aop = "Area" THEN <<2 * c - 1, 2>> ELSE RInt(c - 1)
        v == IF aop = "Area" THEN <<2 * r - 1, 2>> ELSE RInt(r - 1)
    IN  <<RAdd(RAdd(RMul(RInt(T.a), u), RMul(RInt(T.b), v)), RInt(T.c)),
          RAdd(RAdd(RMul(RInt(T.d), u), RMul(RInt(T.e), v)), RInt(T.f))>>

\* the mask of _apply_dsm: true where the cell of the registered raster is
\* to get the nodata value
residual_mask(a, nd) ==
    [r \in 1..Rows(a) |-> [c \in 1..Cols(a) |->
        IF nd # None THEN Eq(nan_to_nodata(a, nd)[r][c], nd) ELSE IsNaN(a[r][c])]]

\* the (x, y) of every cell of the registered raster, row by row
cell_centres(src) ==
    [i \in 1..Size(src.dsm) |->
        cell_xy(src.transform, meshgrid_index(i, Rows(src.dsm), Cols(src.dsm))[1],
                meshgrid_index(i, Rows(src.dsm), Cols(src.dsm))[2],
                IF src.tags = "Point" THEN "Point" ELSE "Area")]
\* res_x[mask] = nodata, reshaped to the raster
residual_band(src, mask, res, f) ==
    [i \in 1..Rows(src.dsm) |-> [j \in 1..Cols(src.dsm) |->
        IF mask[i][j] THEN as_real(src.nodata) ELSE res[(i - 1) * Cols(src.dsm) + j][f]]]
six_bands(src, mask, res) ==
    <<nan_to_nodata(src.dsm, src.nodata),
      residual_band(src, mask, res, "x"), residual_band(src, mask, res, "y"),
      residual_band(src, mask, res, "z"), residual_band(src, mask, res, "horiz"),
      residual_band(src, mask, res, "threeD")>>
\* the six bands of the residual raster made from the registered raster src
residual_bands(r, src, TS) ==
    six_bands(src, residual_mask(src.dsm, src.nodata),
              interpolate_residuals(r, cell_centres(src), TS))

\* the path of the residual companion of out_name
residuals_name(out, ext) == DirPath(out.dir, splitext(out)[1] \o "_residuals", ext)

\* output_path of _apply_dsm
dsm_output_path(r, cfg) ==
    LET in_name == splitext(basename(r.aoi_file))
    IN  join(cfg.OUTPUT_DIR, Path(in_name[1] \o "_registered", in_name[2]))

Step(kind, wrote, read, residuals) ==
    [kind |-> kind, wrote |-> wrote, read |-> read, residuals |-> residuals]
Outcome(files, raised, steps) == [fs |-> files, raised |-> raised, steps |-> steps]

\* a pdal stage other than the registration task, by its type name
Stage(name) == [k |-> "stage", type |-> name]

dsm_pipeline_reproject_first(r, task) ==
    <<Stage("readers.gdal")>>
    \o (IF r.aoi_crs # None THEN <<Stage("filters.reprojection")>> ELSE << >>)
    \o (IF r.aoi_nodata # None THEN <<Stage("filters.range")>> ELSE << >>)
    \o (IF task.k = "filter" THEN <<task, Stage("writers.gdal")>> ELSE << >>)

\* the stages of the pdal pipeline of _apply_dsm, in the order they are
\* appended; building stops where the registration task is not a Filter
dsm_pipeline(r, task) ==
    <<Stage("readers.gdal")>>
    \o (IF r.aoi_nodata # None THEN <<Stage("filters.range")>> ELSE << >>)
    \o (IF r.aoi_crs # None THEN <<Stage("filters.reprojection")>> ELSE << >>)
    \o (IF task.k = "filter" THEN <<task, Stage("writers.gdal")>> ELSE << >>)

\* the record of one _apply_dsm call: a step with the pipeline it built
DsmStep(wrote, read, residuals, stages) ==
    [kind |-> "dsm", wrote |-> wrote, read |-> read, residuals |-> residuals,
     pipeline |-> stages]

\* _apply_dsm; registered is the raster the pipeline's writer produces and
\* TS the triangulation the residual origins get (None when there is none)
apply_dsm(files, r, task, cfg, registered, TS) ==
    LET path == dsm_output_path(r, cfg)
        written == [files EXCEPT ![path] = registered]
        src == written[r.out_name]
        res_path == residuals_name(r.out_name, ".tif")
        stages == dsm_pipeline(r, task)
    IN  IF task.k # "filter"
        THEN Outcome(files, NotAStage, <<DsmStep(None, None, None, stages)>>)
        ELSE IF ~cfg.ICP_SAVE_RESIDUALS
        THEN Outcome(written, None, <<DsmStep(path, None, None, stages)>>)
        ELSE IF src.k # "raster"
        THEN Outcome(written, OpenError, <<DsmStep(path, r.out_name, None, stages)>>)
        ELSE IF TS = None
        THEN Outcome(written, QhullError, <<DsmStep(path, r.out_name, None, stages)>>)
        ELSE Outcome([written EXCEPT ![res_path] =
                         [k |-> "residuals", bands |-> residual_bands(r, src, TS),
                          nodata |-> src.nodata, transform |-> src.transform, of |-> src]],
                     None, <<DsmStep(path, r.out_name, res_path, stages)>>)


\* the extensions trimesh exports to
MeshExporters == {".obj", ".ply", ".stl", ".glb", ".gltf"}

\* the vertices or points of a file after the registration matrix
registered_points(task, content) ==
    [i \in 1..Len(content.points) |-> transform_point(task.matrix, RealPoint(content.points[i]))]

\* the residual attributes of stored points: one record per point
point_residuals(r, content, TS) ==
    interpolate_residuals(r, [i \in 1..Len(content.points) |->
                                 <<content.points[i][1], content.points[i][2]>>], TS)

\* the registered vertices or points are written to out_name; with
\* ICP_SAVE_RESIDUALS they are read back and written again, with their
\* residuals, to the companion file
write_points(kind, res_ext, files, r, cfg, registered, TS) ==
    IF ~cfg.ICP_SAVE_RESIDUALS
    THEN Outcome([files EXCEPT ![r.out_name] = registered], None,
                 <<Step(kind, r.out_name, None, None)>>)
    ELSE IF TS = None
    THEN Outcome([files EXCEPT ![r.out_name] = registered], QhullError,
                 <<Step(kind, r.out_name, r.out_name, None)>>)
    ELSE Outcome([files EXCEPT ![r.out_name] = registered,
                               ![residuals_name(r.out_name, res_ext)] =
                                   [k |-> registered.k, points |-> registered.points,
                                    attributes |-> point_residuals(r, registered, TS)]],
                 None,
                 <<Step(kind, r.out_name, r.out_name, residuals_name(r.out_name, res_ext))>>)

\* _apply_mesh on the mesh file content
apply_mesh(files, r, task, cfg, content, TS) ==
    IF task.k # "array"
    THEN Outcome(files, NotAStageTypeError, <<Step("mesh", None, None, None)>>)
    ELSE IF r.out_name.ext \notin MeshExporters
    THEN Outcome(files, ExportError, <<Step("mesh", None, None, None)>>)
    ELSE write_points("mesh", ".ply", files, r, cfg,
                      [k |-> "mesh", points |-> registered_points(task, content)], TS)

\* _apply_pointcloud on the point file content (LAS quantisation of the
\* coordinates is not modelled)
apply_pointcloud(files, r, task, cfg, content, TS) ==
    IF task.k # "filter"
    THEN Outcome(files, NotAStageTypeError, <<Step("pcloud", None, None, None)>>)
    ELSE write_points("pcloud", ".laz", files, r, cfg,
                      [k |-> "points", points |-> registered_points(task, content)], TS)

\* the method apply() runs for one of its three tests
apply_kind(kind, files, r, task, cfg, registered, content, TS) ==
    IF kind = "dsm" THEN apply_dsm(files, r, task, cfg, registered, TS)
    ELSE IF kind = "mesh" THEN apply_mesh(files, r, task, cfg, content, TS)
    ELSE apply_pointcloud(files, r, task, cfg, content, TS)

\* the three tests of apply(), in order, each on the extension of the AOI
\* file; a method that raises ends the call
ApplyTests(ext, cfg) ==
    SelectSeq(<<"dsm", "mesh", "pcloud">>,
              LAMBDA kind : \/ kind = "dsm" /\ ext \in cfg.dsm_filetypes
                            \/ kind = "mesh" /\ ext \in cfg.mesh_filetypes
                            \/ kind = "pcloud" /\ ext \in cfg.pcloud_filetypes)
\* the outcome of a method run after the outcome o
after_outcome(o, f) == Outcome(f.fs, f.raised, o.steps \o f.steps)
RECURSIVE apply_from(_, _, _, _, _, _, _, _)
apply_from(kinds, o, r, task, cfg, registered, content, TS) ==
    IF kinds = << >> \/ o.raised # None THEN o
    ELSE apply_from(Tail(kinds),
                    after_outcome(o, apply_kind(Head(kinds), o.fs, r, task, cfg, registered, content, TS)),
                    r, task, cfg, registered, content, TS)

\* the triangulation the library builds on the residual origins: any of the
\* Delaunay triangulations, None when the origins have none
TriangulationObjects(all) ==
    IF all = {} THEN {None} ELSE {[k |-> "triangulation", triangles |-> t] : t \in all}
TriangulationChoices(r) == TriangulationObjects(Triangulations(fnd_res_origins(r)))

\* the rasters writers.gdal can make of the registered points: cells with a
\* value or the nodata value, at the AOI's resolution
RegisteredRasters(r) ==
    LET nd == IF r.aoi_nodata = None THEN GdalNodata ELSE r.aoi_nodata
    IN  {[k |-> "raster", dsm |-> m, transform |-> NorthUp(r.aoi_resolution, 0, r.aoi_resolution),
          nodata |-> nd, crs |-> r.aoi_crs, tags |-> r.aoi_area_or_point] :
            m \in Matrices(1, 2, {Num(1), nd})}

\* apply() on a newly built object; each _apply_* method calls
\* get_registration_transformation() itself, with the same result
Apply ==
    /\ reg # None
    /\ last.op = "init"
    /\ LET task == get_registration_transformation(reg)
           ext == splitext(reg.aoi_file)[2]
           rasters == IF ext \in config.dsm_filetypes THEN RegisteredRasters(reg) ELSE {None}
       IN  \E registered \in rasters, TS \in TriangulationChoices(reg) :
              \E o \in {apply_from(ApplyTests(ext, config), Outcome(fs, None, << >>),
                                   reg, task, config, registered, source["aoi"], TS)} :
                  /\ fs' = o.fs
                  /\ last' = [op |-> "apply", steps |-> o.steps, raised |-> o.raised]
    /\ UNCHANGED <<dataVars, prepVars, tmp_file, source, calls, pc, err, config, reg>>

\* the points _interpolate_residuals is asked about
QueryPoints ==
    {<<Rat(1, 2), Rat(1, 2)>>, <<RInt(2), RInt(2)>>, <<RInt(0), RInt(0)>>,
     <<Rat(1, 4), Rat(1, 2)>>, <<RInt(0 - 1), RInt(0)>>, <<RInt(1), Rat(1, 2)>>,
     <<RInt(3), RInt(4)>>, <<RInt(60), RInt(1)>>}

\* a call of _interpolate_residuals(x, y) with one query point on a newly
\* built object
InterpolateResiduals ==
    /\ reg # None
    /\ last.op = "init"
    /\ \E TS \in TriangulationChoices(reg), q \in QueryPoints :
          last' = [op |-> "interpolate", q |-> q, TS |-> TS,
                   raised |-> IF TS = None THEN QhullError ELSE None,
                   returned |-> IF TS = None THEN None
                                ELSE interpolate_residuals(reg, <<q>>, TS)[1]]
    /\ UNCHANGED <<dataVars, prepVars, fileVars, pc, err, config, reg>>

\* ------------------------------------------------------------ apply: inputs
ApplyExts == {".tif", ".obj", ".las", ".ply", ".laz"}
ApplyFileNames ==
    {DirPath("out", root, e) : root \in {"aoi_registered", "aoi_registered_residuals"},
                               e \in ApplyExts}
\* ".ply" is a mesh extension and a point cloud extension, or a point cloud
\* extension only
ApplyFiletypes ==
    {DefaultFiletypes, [DefaultFiletypes EXCEPT !.mesh_filetypes = @ \ {".ply"}]}
AoiExts == {".tif", ".obj", ".las", ".ply"}
\* the units factors of foundation and AOI: metres, and two foot-like units
\* whose reciprocal is not a floating point number
UnitFactors == {<<1, 1>>, <<25, 25>>, <<1, 25>>, <<13, 1>>}
AoiNodata == {None, GdalNodata, NaN}
AoiPoints == <<<<0, 0, 1>>, <<1, 0, 1>>, <<0, 1, 0>>, <<3, 3, 1>>>>
\* the AOI file has a projected CRS or none
AoiCrsKinds == {"projected", "none"}

ApplySource(uf, nd) ==
    [RasterFile(<<2, 2>>, NorthUp(1, 0, 2), Crs("EPSG:32615", TRUE, uf))
        EXCEPT !.nodata = nd, !.mesh_uf = uf] @@ [points |-> AoiPoints]

\* the arguments of the constructor
ToReal(M) == [i \in 1..4 |-> [j \in 1..4 |-> RInt(M[i][j])]]
RegistrationMatrices ==
    {ToReal(<<<<1, 0, 0, 0>>, <<0, 1, 0, 0>>, <<0, 0, 1, 0>>, <<0, 0, 0, 1>>>>),
     ToReal(<<<<0, 0 - 3, 0, 2>>, <<3, 0, 0, 0>>, <<0, 0, 3, 0 - 1>>, <<0, 0, 0, 1>>>>)}
ResidualField(origins, vectors) == [origins |-> origins, vectors |-> vectors]
ResidualFields ==
    {ResidualField(<<<<0, 0, 0>>, <<1, 0, 0>>, <<0, 1, 0>>, <<1, 1, 0>>>>,
                   <<<<1, 0, 0>>, <<0, 0, 0>>, <<0, 0, 0>>, <<0, 0, 0>>>>),
     ResidualField(<<<<0, 0, 0>>, <<4, 0, 0>>, <<0, 4, 0>>>>,
                   <<<<3, 4, 0>>, <<0, 0, 2>>, <<1, 0, 0>>>>),
     ResidualField(<<<<0, 0, 0>>, <<1, 0, 0>>, <<2, 0, 0>>>>,
                   <<<<1, 0, 0>>, <<0, 1, 0>>, <<0, 0, 1>>>>)}
OutputFormats == {None, Format(<<"laz">>), Format(<<".", "laz">>), Format(<<"tif">>)}

\* both datasets are instantiated and gridded (the foundation is a raster);
\* no registered file exists yet
InitApply ==
    /\ \E ft \in ApplyFiletypes, ae \in AoiExts, save \in BOOLEAN :
          config = [OUTPUT_DIR |-> "out", ICP_SAVE_RESIDUALS |-> save]
                   @@ Config(DirPath("in", "fnd", ".tif"), DirPath("in", "aoi", ae), FALSE, ft)
    /\ \E u \in UnitFactors, nd \in AoiNodata, c \in AoiCrsKinds :
          /\ c = "none" => u[2] = 1
          /\ source = [d \in DS |-> IF IsFnd(d) THEN ApplySource(u[1], GdalNodata)
                                    ELSE IF c = "none"
                                    THEN [ApplySource(u[2], nd) EXCEPT !.crs = None]
                                    ELSE ApplySource(u[2], nd)]
    /\ type = [d \in DS |-> kind_of(FileOf(config, d).ext, config)]
    /\ type["aoi"] = "dsm" \/ (source["aoi"].nodata = GdalNodata /\ source["aoi"].crs # None)
    /\ file = [d \in DS |-> FileOf(config, d)]
    /\ native_resolution = [d \in DS |-> calculate_resolution(type[d], source[d]).native_resolution]
    /\ units_factor = [d \in DS |-> calculate_resolution(type[d], source[d]).units_factor]
    /\ resolution = [d \in DS |-> MaxOf({native_resolution[o] : o \in DS})]
    /\ window = [d \in DS |-> None]
    /\ LET new == [d \in DS |->
                      IF type[d] = "dsm"
                      THEN dsm_create_dsm(source[d], native_resolution[d], resolution[d],
                                          None, units_factor[d], TRUE)
                      ELSE writers_gdal({AoiPoints[i] : i \in 1..Len(AoiPoints)},
                                        units_factor[d], resolution[d], d)]
       IN  /\ dsm = [d \in DS |-> new[d].dsm]
           /\ transform = [d \in DS |-> new[d].transform]
           /\ nodata = [d \in DS |-> new[d].nodata]
           /\ crs = [d \in DS |-> IF type[d] = "dsm" THEN new[d].crs ELSE source[d].crs]
           /\ area_or_point = [d \in DS |-> IF type[d] = "dsm" THEN new[d].area_or_point
                                            ELSE new[d].tags]
    /\ infilled = [d \in DS |-> Unset]
    /\ nodata_mask = [d \in DS |-> Unset]
    /\ normed = [d \in DS |-> EmptyArray]
    /\ point_cloud = [d \in DS |-> EmptyArray]
    /\ normal_vectors = [d \in DS |-> EmptyArray]
    /\ processed = [d \in DS |-> FALSE]
    /\ pc = [d \in DS |-> "idle"]
    /\ err = [d \in DS |-> None]
    /\ trace = [d \in DS |-> << >>]
    /\ l_infilled = [d \in DS |-> Unset]
    /\ l_mask = [d \in DS |-> Unset]
    /\ infill_mask = [d \in DS |-> Unset]
    /\ fs = [n \in ApplyFileNames |-> Absent]
    /\ tmp_file = [d \in DS |-> None]
    /\ calls = [d \in DS |-> 0]
    /\ reg = None
    /\ last = [op |-> "none", n |-> 0]

NextApply ==
    \/ \E M \in RegistrationMatrices, f \in ResidualFields, fmt \in OutputFormats :
          Construct(M, f.vectors, f.origins, fmt)
    \/ GetRegistrationTransformation
    \/ Apply
    \/ InterpolateResiduals

SpecApply == InitApply /\ [][NextApply]_vars

\* ------------------------------------------------------------ apply: claims
ApplyTypeOK == reg = None \/ reg.out_name \in ApplyFileNames


\* what get_registration_transformation has just returned
Returned == last.op = "get_registration_transformation"
IdentityMatrix == ToReal(<<<<1, 0, 0, 0>>, <<0, 1, 0, 0>>, <<0, 0, 1, 0>>, <<0, 0, 0, 1>>>>)
\* the entry of diag(1/fnd_uf, .., 1) * R * diag(aoi_uf, .., 1) in exact arithmetic
ExactEntry(R, aoi_uf, fnd_uf, i, j) ==
    IF i = 4 THEN R[i][j]
    ELSE IF j = 4 THEN RDiv(R[i][j], RInt(fnd_uf))
    ELSE RDiv(RMul(R[i][j], RInt(aoi_uf)), RInt(fnd_uf))
\* x is y to within three roundings: |x - y| <= 4 * 2^-MantissaBits * |y|
Rounded(x, y) == RLe(RMul(RInt(MantissaTop), RAbs(RSub(x, y))), RMul(RInt(4), RAbs(y)))

C16_WitnessNotIdentity ==
    /\ Returned
    /\ reg.registration_transform = IdentityMatrix
    /\ reg.aoi_units_factor = reg.fnd_units_factor
    /\ last.returned.matrix # IdentityMatrix


\* the path the spec gives the registered file
ExpectedOutName(fmt) ==
    DirPath(config.OUTPUT_DIR, "aoi_registered",
            IF fmt = None THEN file["aoi"].ext ELSE "." \o fmt.pieces[Len(fmt.pieces)])
Applied == last.op = "apply"
\* the steps of the last apply() that wrote a registered file
Writes == {i \in 1..Len(last.steps) : last.steps[i].wrote # None}

\* C17: out_name is OUTPUT_DIR/<root>_registered<ext>, <ext> being the
\* override extension (given with or without its dot) or else the source
\* extension, and for every AOI kind the registered file apply() writes is at
\* out_name, the path the residual step reads back.
C17_OutputPath ==
    /\ last.op = "init" => reg.out_name = ExpectedOutName(last.output_format)
    /\ Applied =>
          \A i \in Writes :
              /\ last.steps[i].wrote = reg.out_name
              /\ last.steps[i].read # None => last.steps[i].read = last.steps[i].wrote

\* what holds of the code: out_name is as stated, and the mesh and the point
\* cloud method write to it and read it back
C17_OutputPathNotRaster ==
    /\ last.op = "init" => reg.out_name = ExpectedOutName(last.output_format)
    /\ Applied =>
          \A i \in Writes :
              last.steps[i].kind # "dsm" =>
                  /\ last.steps[i].wrote = reg.out_name
                  /\ last.steps[i].read # None => last.steps[i].read = last.steps[i].wrote

\* a raster AOI with an override extension: the registered raster is written
\* under the source extension and the residual step fails to open out_name
C17_WitnessRasterOverride ==
    /\ Applied
    /\ Len(last.steps) = 1
    /\ last.steps[1].kind = "dsm"
    /\ last.steps[1].wrote # reg.out_name
    /\ last.steps[1].read = reg.out_name
    /\ last.raised = OpenError

\* a point cloud with an override extension was written and read back
C17_WitnessPcloudOverride ==
    /\ Applied
    /\ \E i \in Writes : /\ last.steps[i].kind = "pcloud"
                         /\ last.steps[i].read = reg.out_name
                         /\ reg.out_name.ext # file["aoi"].ext


\* _interpolate_residuals has just returned
Interpolated == last.op = "interpolate" /\ last.raised = None
Outputs == {"x", "y", "z", "horiz", "threeD"}
\* q lies in the closed convex hull of the points xy: in the plane, in the
\* closed triangle of three of them
InHull(xy, q) ==
    \E i \in 1..Len(xy), j \in 1..Len(xy), k \in 1..Len(xy) :
        /\ i < j /\ j < k
        /\ Cross(xy[i], xy[j], xy[k])[1] # 0
        /\ InTriangle(xy[i], xy[j], xy[k], q)

\* C18: _interpolate_residuals returns exactly -9999.0 in all five outputs
\* for a query point strictly outside the convex hull of the residual
\* origins, and none of its outputs is NaN for any query point.
C18_Sentinel ==
    Interpolated =>
        /\ ~InHull(fnd_res_origins(reg), last.q) =>
              \A f \in Outputs : last.returned[f] = Sentinel
        /\ \A f \in Outputs : ~IsNaN(last.returned[f])

\* a point outside the hull was queried and the sentinel came back
C18_Witness ==
    /\ Interpolated
    /\ ~InHull(fnd_res_origins(reg), last.q)
    /\ last.returned.x = Sentinel
    /\ last.returned.threeD = Sentinel

\* a point inside the hull was queried and a value came back
C18_WitnessInside ==
    /\ Interpolated
    /\ InHull(fnd_res_origins(reg), last.q)
    /\ last.returned.horiz # Sentinel
    /\ last.returned.horiz.v[1] > 0


\* the residual field of the unit square: origins at its four corners, the
\* vector (1, 0, 0) at the corner (0, 0) and (0, 0, 0) at the other three
UnitSquare ==
    /\ reg.residual_origins = <<<<0, 0, 0>>, <<1, 0, 0>>, <<0, 1, 0>>, <<1, 1, 0>>>>
    /\ reg.residual_vectors = <<<<1, 0, 0>>, <<0, 0, 0>>, <<0, 0, 0>>, <<0, 0, 0>>>>
    /\ reg.fnd_units_factor = 1
Centre == <<Rat(1, 2), Rat(1, 2)>>
FarCorner == <<RInt(2), RInt(2)>>
\* the triangulation used has the diagonal from corner i to corner j
HasDiagonal(TS, i, j) == \A t \in TS.triangles : {i, j} \subseteq {t[1], t[2], t[3]}

\* C19 as stated: on the unit square the x output at (0.5, 0.5) is about 0.25
\* (within 0.1 of it) and at (2, 2) it is -9999.0.
C19_UnitSquare ==
    (Interpolated /\ UnitSquare) =>
        /\ last.q = Centre =>
              /\ last.returned.x # Sentinel
              /\ RLe(RAbs(RSub(last.returned.x.v, Rat(1, 4))), Rat(1, 10))
        /\ last.q = FarCorner => last.returned.x = Sentinel

\* C19 amended: on the unit square the x output at (0.5, 0.5) is 0.5 when
\* the triangulation has the diagonal through the corner that carries the
\* vector (1, 0, 0) and 0 when it has the other diagonal; at (2, 2) it is
\* -9999.0.
C19_UnitSquareLinear ==
    (Interpolated /\ UnitSquare) =>
        /\ last.q = Centre =>
              /\ HasDiagonal(last.TS, 1, 4) \/ HasDiagonal(last.TS, 2, 3)
              /\ HasDiagonal(last.TS, 1, 4) => last.returned.x = Num(Rat(1, 2))
              /\ HasDiagonal(last.TS, 2, 3) => last.returned.x = Num(RInt(0))
        /\ last.q = FarCorner => last.returned.x = Sentinel

\* the centre of the unit square was queried over the diagonal through (0, 0)
C19_Witness ==
    /\ Interpolated /\ UnitSquare
    /\ last.q = Centre
    /\ last.returned.x = Num(Rat(1, 2))

\* the centre of the unit square was queried over the other diagonal
C19_WitnessOtherDiagonal ==
    /\ Interpolated /\ UnitSquare
    /\ last.q = Centre
    /\ last.returned.x = Num(RInt(0))

\* (2, 2) was queried on the unit square
C19_WitnessFar ==
    /\ Interpolated /\ UnitSquare
    /\ last.q = FarCorner
    /\ last.returned.x = Sentinel


\* the last apply() wrote a residual raster
ResidualsWritten ==
    /\ Applied
    /\ Len(last.steps) = 1
    /\ last.steps[1].kind = "dsm"
    /\ last.steps[1].residuals # None
ResidualRaster == fs[last.steps[1].residuals]
BandField == <<"dsm", "x", "y", "z", "horiz", "threeD">>
\* the cell of the registered raster is nodata: it is NaN or the nodata value
NodataCell(src, r, c) == IsNaN(src.dsm[r][c]) \/ src.dsm[r][c] = src.nodata
\* the values _interpolate_residuals can give band b at the cell
InterpolatedAt(src, b, r, c) ==
    {interpolate_residuals(reg, <<cell_xy(src.transform, r, c, src.tags)>>, TS)[1][BandField[b]] :
        TS \in TriangulationChoices(reg)}
\* bands 2 to 6 of the residual raster are as C20 says
NodataOverwritten(f) ==
    \A b \in 2..6, r \in 1..Rows(f.of.dsm), c \in 1..Cols(f.of.dsm) :
        IF NodataCell(f.of, r, c)
        THEN f.bands[b][r][c] = as_real(f.nodata)
        ELSE f.bands[b][r][c] \in InterpolatedAt(f.of, b, r, c)

\* C20: in the residual raster written by _apply_dsm every cell of bands 2-6
\* whose DSM cell is nodata (or NaN) holds the raster's nodata value, also
\* outside the convex hull, and every cell whose DSM cell is valid keeps its
\* interpolated value or the -9999.0 sentinel.
C20_NodataCells == ResidualsWritten => NodataOverwritten(ResidualRaster)

\* what holds of the code: the same, for a raster whose nodata value is a
\* number
C20_NodataCellsNumeric ==
    (ResidualsWritten /\ ~IsNaN(ResidualRaster.nodata)) => NodataOverwritten(ResidualRaster)

\* a residual raster with a nodata cell outside the hull and a valid cell
\* inside it, the nodata value being a number
C20_WitnessNumeric ==
    /\ ResidualsWritten
    /\ ~IsNaN(ResidualRaster.nodata)
    /\ \E c \in 1..2 :
          /\ NodataCell(ResidualRaster.of, 1, c)
          /\ ~InHull(fnd_res_origins(reg), cell_xy(ResidualRaster.of.transform, 1, c, "Area"))
          /\ ResidualRaster.bands[2][1][c] = as_real(ResidualRaster.nodata)
    /\ \E c \in 1..2 :
          /\ ~NodataCell(ResidualRaster.of, 1, c)
          /\ InHull(fnd_res_origins(reg), cell_xy(ResidualRaster.of.transform, 1, c, "Area"))
          /\ ResidualRaster.bands[2][1][c] # Sentinel

\* a residual raster whose nodata value is NaN: a NaN cell of the DSM holds
\* an interpolated residual
C20_WitnessNaN ==
    /\ ResidualsWritten
    /\ IsNaN(ResidualRaster.nodata)
    /\ \E c \in 1..2 :
          /\ IsNaN(ResidualRaster.of.dsm[1][c])
          /\ ~IsNaN(ResidualRaster.bands[2][1][c])
          /\ ResidualRaster.bands[2][1][c] # Sentinel


\* ------------------------------------------------------------ prep: too few points
\* prep() has gone past the normals step, or has left it by raising
PastDsm2pc(d) == Done(d, "dsm2pc") /\ pc[d] # "generate_vectors"

\* C21: prep() on a foundation whose point cloud (as _dsm2pc left it) has
\* fewer than k = 9 points raises the too-few-points error in the normals
\* step, assigns no normals and leaves processed false; prep() on an AOI
\* with fewer than 9 points raises nothing, computes no normals and ends
\* with processed true.
C21_TooFewPoints ==
    \A d \in DS :
        (PastDsm2pc(d) /\ Len(point_cloud[d]) < K) =>
            IF IsFnd(d)
            THEN /\ pc[d] = "raised"
                 /\ err[d] = TooFewPoints
                 /\ trace[d] = <<"infill", "normalize", "dsm2pc">>
                 /\ normal_vectors[d] = EmptyArray
                 /\ ~processed[d]
            ELSE /\ pc[d] \in {"return", "done"}
                 /\ err[d] = None
                 /\ normal_vectors[d] = EmptyArray
                 /\ pc[d] = "done" => processed[d]

C21_Witness ==
    /\ pc["fnd"] = "raised"
    /\ err["fnd"] = TooFewPoints
    /\ Len(point_cloud["fnd"]) \in 1..(K - 1)
    /\ ~processed["fnd"]

C21_WitnessAoi ==
    /\ processed["aoi"]
    /\ Len(point_cloud["aoi"]) \in 1..(K - 1)

\* ------------------------------------------------------------ DSM._create_dsm: claims
\* the region of the raster file DSM._create_dsm reads for dataset d: the
\* stored window, or the whole raster when none is stored
Region(d) ==
    IF window[d] = None
    THEN Window(0, 0, Cols(source[d].dsm), Rows(source[d].dsm))
    ELSE window[d]

\* T * (col, row), in world units
AffineMul(T, col, row) == <<T.a * col + T.b * row + T.c, T.d * col + T.e * row + T.f>>

\* transform of d maps (0, 0) to the region's world origin and (new_cols,
\* new_rows) to its bottom-right world corner
SpansRegion(d) ==
    /\ AffineMul(transform[d], 0, 0)
           = AffineMul(source[d].transform, Region(d).col_off, Region(d).row_off)
    /\ AffineMul(transform[d], Cols(dsm[d]), Rows(dsm[d]))
           = AffineMul(source[d].transform, Region(d).col_off + Region(d).width,
                       Region(d).row_off + Region(d).height)

\* the stored window lies inside the raster and holds at least one cell
WindowInside(d) ==
    /\ window[d] # None
    /\ window[d].col_off >= 0 /\ window[d].row_off >= 0
    /\ window[d].width > 0 /\ window[d].height > 0
    /\ window[d].col_off + window[d].width <= Cols(source[d].dsm)
    /\ window[d].row_off + window[d].height <= Rows(source[d].dsm)

\* C22: after DSM._create_dsm(resample=True) with units_factor 1 the
\* transform maps (0, 0) to the world origin of the region read and
\* (new_cols, new_rows) to that region's bottom-right world corner, the
\* region being the whole raster without a window and the window with one.
C22_TransformSpansRegion ==
    \A d \in DS : (type[d] = "dsm" /\ units_factor[d] = 1) => SpansRegion(d)

\* C22 for a dataset without a window
C22_WholeRaster ==
    \A d \in DS :
        (type[d] = "dsm" /\ units_factor[d] = 1 /\ window[d] = None) => SpansRegion(d)

\* C22 for a window inside the raster that is read without resampling
C22_WindowNative ==
    \A d \in DS :
        (/\ type[d] = "dsm" /\ units_factor[d] = 1
         /\ WindowInside(d) /\ native_resolution[d] = resolution[d]) => SpansRegion(d)

\* C22 for a window inside the raster that is resampled
C22_WindowResampled ==
    \A d \in DS :
        (/\ type[d] = "dsm" /\ units_factor[d] = 1
         /\ WindowInside(d) /\ native_resolution[d] # resolution[d]) => SpansRegion(d)

C22_WitnessWholeRaster ==
    \E d \in DS :
        /\ type[d] = "dsm" /\ units_factor[d] = 1 /\ window[d] = None
        /\ native_resolution[d] # resolution[d]
        /\ Shape(dsm[d]) # Shape(source[d].dsm)

\* ------------------------------------------------------------ _apply_dsm: the pipeline
\* the _apply_dsm calls of the last apply()
DsmSteps == {i \in 1..Len(last.steps) : last.steps[i].kind = "dsm"}

\* the positions of the stages of type t in pipeline p
StagesOf(p, t) == {j \in 1..Len(p) : p[j].type = t}

\* pipeline p is reader, optional range filter, optional reprojection, the
\* registration task, writer, in this order and each at most once
WellOrdered(p) ==
    /\ Len(p) >= 3
    /\ StagesOf(p, "readers.gdal") = {1}
    /\ StagesOf(p, "writers.gdal") = {Len(p)}
    /\ StagesOf(p, "filters.transformation") = {Len(p) - 1}
    /\ p[Len(p) - 1] = get_registration_transformation(reg)
    /\ Cardinality(StagesOf(p, "filters.range")) <= 1
    /\ Cardinality(StagesOf(p, "filters.reprojection")) <= 1
    /\ \A i \in StagesOf(p, "filters.range"), j \in StagesOf(p, "filters.reprojection") : i < j
    /\ Len(p) = 3 + Cardinality(StagesOf(p, "filters.range"))
                  + Cardinality(StagesOf(p, "filters.reprojection"))

\* _create_dsm gave the AOI a CRS other than the one of its file
CrsChanged == crs["aoi"] # source["aoi"].crs

\* an _apply_dsm call whose registration task is no pipeline stage raises
\* before the pipeline runs: nothing is written
NotAStageRaises(i) ==
    get_registration_transformation(reg).k # "filter" =>
        /\ last.raised = NotAStage
        /\ last.steps[i].wrote = None
        /\ \A n \in DOMAIN fs : fs[n] = Absent

C23_WitnessShort ==
    /\ last.op = "apply"
    /\ \E i \in DsmSteps :
          /\ Len(last.steps[i].pipeline) = 3
          /\ last.steps[i].wrote # None

\* ------------------------------------------------------------ gridding: repeated calls
\* dataset d holds the raster its pipeline grids at the current resolution,
\* read through the current window
HoldsGridded(d) ==
    /\ dsm[d] = read_band(Gridded(d).dsm, window[d])
    /\ transform[d] = IF window[d] = None THEN Gridded(d).transform
                      ELSE window_transform(Gridded(d).transform, window[d])
    /\ nodata[d] = Gridded(d).nodata

\* a _create_dsm call on d has returned and the other dataset made none
\* (no other call wrote or removed a temporary raster meanwhile)
ReturnedAlone(d) ==
    /\ pc[d] = "done"
    /\ last = [op |-> "_create_dsm", d |-> d]
    /\ \A o \in DS \ {d} : calls[o] = 0

\* C24: every call of _create_dsm on a Mesh, like on a PointCloud, replaces
\* dsm, transform and nodata with those of the raster that call gridded at
\* the current resolution and window; a second call, made after a window
\* was stored, does not leave the dsm of the first call in place.
C24_Replaces == \A d \in DS : ReturnedAlone(d) => HoldsGridded(d)

\* C24 for a PointCloud
C24_ReplacesPointCloud ==
    \A d \in DS : (ReturnedAlone(d) /\ type[d] = "pcloud") => HoldsGridded(d)

\* C24 for the first call on a Mesh
C24_ReplacesMeshFirst ==
    \A d \in DS : (ReturnedAlone(d) /\ type[d] = "mesh" /\ calls[d] = 1 /\ window[d] = None)
                      => HoldsGridded(d)

C24_WitnessPointCloud ==
    \E d \in DS :
        /\ ReturnedAlone(d) /\ type[d] = "pcloud" /\ calls[d] = 2
        /\ window[d] # None
        /\ dsm[d] # Gridded(d).dsm

\* a Mesh whose second call, made with the window of the first cell stored,
\* left the two-cell raster of the first call in place
C24_StaleMesh ==
    \E d \in DS :
        /\ ReturnedAlone(d) /\ type[d] = "mesh" /\ calls[d] = 2
        /\ window[d] = [col_off |-> 0, row_off |-> 0, width |-> 1, height |-> 1]
        /\ Shape(dsm[d]) = <<1, 2>>
        /\ Shape(Gridded(d).dsm) = <<1, 2>>
        /\ ~HoldsGridded(d)

\* ------------------------------------------------------------ _infill: termination
\* the fill loop of dataset d has not ended
InLoop(d) == pc[d] = "infill_loop" /\ MaskSum(infill_mask[d]) < Size(infill_mask[d])

\* every outcome of the next pass has more valid cells than there are now
PassGains(d) ==
    \A filled \in fillnodata(l_infilled[d], infill_mask[d]) :
        MaskSum(get_nodata_mask(filled, nodata[d])) > MaskSum(infill_mask[d])

\* a step of prep() other than the call itself
PrepStep(d) ==
    \/ InfillEnter(d)
    \/ InfillPass(d)
    \/ InfillReturn(d)
    \/ Normalize(d)
    \/ Dsm2pc(d)
    \/ GenerateVectors(d)
    \/ PrepReturn(d)

\* what a step of prep() advances: the position of each dataset and, in the
\* fill loop, the number of valid cells of its mask
progress ==
    <<pc, [d \in DS |-> IF pc[d] = "infill_loop" THEN MaskSum(infill_mask[d]) ELSE 0]>>

\* prep() once called runs on: no statement of it waits for anything, so a
\* step that advances is taken
SpecPrepFair == SpecPrep /\ \A d \in DS : WF_progress(PrepStep(d))

\* C25: _infill always terminates: it raises, or its loop reaches an
\* all-valid mask after finitely many passes.
C25_Terminates ==
    \A d \in DS : (pc[d] = "infill") ~> (pc[d] \notin {"infill", "infill_loop"})

\* C25, the variant: every pass of the fill loop that is made strictly
\* increases the number of valid cells.
C25_PassGains == \A d \in DS : InLoop(d) => PassGains(d)

\* C25_PassGains when the mask has a valid cell on entry to the pass
C25_PassGainsFromValid ==
    \A d \in DS : (InLoop(d) /\ MaskSum(infill_mask[d]) > 0) => PassGains(d)

\* C25 for a DSM whose mask has a valid cell when _infill is entered
C25_TerminatesFromValid ==
    \A d \in DS :
        (pc[d] = "infill" /\ MaskSum(get_nodata_mask(dsm[d], nodata[d])) > 0)
            ~> (pc[d] \notin {"infill", "infill_loop"})

\* ------------------------------------------------------------ apply: the method run
\* the extension of the AOI file
AoiExt == splitext(file["aoi"])[2]

\* C26: for every AOI file extension apply() runs at most one of _apply_dsm,
\* _apply_mesh and _apply_pointcloud, and the one it runs is the one of the
\* dataset kind instantiate chose for that extension, also for an extension
\* that is both in the mesh and in the point-cloud set.
C26_OneMethod ==
    last.op = "apply" =>
        /\ Len(last.steps) <= 1
        /\ \A i \in 1..Len(last.steps) :
              last.steps[i].kind = kind_of(AoiExt, config)

\* C26 for an extension that is in at most one of the three sets
C26_OneMethodOneSet ==
    (/\ last.op = "apply"
     /\ AoiExt \notin config.mesh_filetypes \cap config.pcloud_filetypes) =>
        /\ Len(last.steps) = 1
        /\ last.steps[1].kind = kind_of(AoiExt, config)

\* a .ply AOI for which both _apply_mesh and _apply_pointcloud ran
C26_BothRan ==
    /\ last.op = "apply"
    /\ AoiExt = ".ply"
    /\ kind_of(AoiExt, config) = "mesh"
    /\ Len(last.steps) = 2
    /\ last.steps[1].kind = "mesh" /\ last.steps[1].wrote # None
    /\ last.steps[2].kind = "pcloud"

\* ------------------------------------------------------------ clip_data: the clipped boxes
\* the last clip_data call passed the disjoint-bounds check and stored windows
PassedDisjoint == last.op = "clip_data" /\ last.raised = None /\ last.clipped # None

NonDegenerate(box) == box.left < box.right /\ box.bottom < box.top

\* C27: whenever clip_data passes the disjoint-bounds check, both clipped
\* boxes have left < right and bottom < top, and the window stored on each
\* dataset has a positive number of rows and columns.
C27_NonDegenerate ==
    PassedDisjoint =>
        \A d \in DS :
            /\ NonDegenerate(last.clipped[d])
            /\ window[d].width > 0
            /\ window[d].height > 0

\* C27 for datasets whose original boxes overlap in more than an edge
C27_NonDegenerateOverlapping ==
    (/\ PassedDisjoint
     /\ \A d \in DS : Size(last.old[d].dsm) > 0
     /\ last.original["fnd"].left < last.original["aoi"].right
     /\ last.original["aoi"].left < last.original["fnd"].right
     /\ last.original["fnd"].bottom < last.original["aoi"].top
     /\ last.original["aoi"].bottom < last.original["fnd"].top) =>
        \A d \in DS : NonDegenerate(last.clipped[d])

\* a first call that passed the check and clipped a box to left > right
C27_Inverted ==
    /\ PassedDisjoint
    /\ last.n = 1
    /\ \E d \in DS : last.clipped[d].left > last.clipped[d].right /\ window[d].width = 0
====
